---- MODULE Spec2Model ----
(***************************************************************************)
(* Rule-evaluation and cross-domain consistency engine of the clinical     *)
(* data compliance tool: the per-domain validators (DM, VS, AE, CM), the   *)
(* cross-domain checks (DM link, VS/AE, VS/CM), the findings aggregator    *)
(* and the two validation runs that merge their results.                   *)
(*                                                                         *)
(* A cell of an input table is a text (a sequence of one-character         *)
(* strings), an integer cell (the marker "#" followed by its digits) or    *)
(* Null.  A table is [cols, rows]; a findings table is [schema, rows]      *)
(* where schema is the ordered list of <<column, dtype>>.                  *)
(***************************************************************************)
EXTENDS Integers, Sequences, FiniteSets, TLC

(***************************************************************************)
(* Cells and texts                                                         *)
(***************************************************************************)
Null == <<"NULL">>

Digits == {"0", "1", "2", "3", "4", "5", "6", "7", "8", "9"}

DigitVal(c) ==
  CASE c = "0" -> 0 [] c = "1" -> 1 [] c = "2" -> 2 [] c = "3" -> 3
    [] c = "4" -> 4 [] c = "5" -> 5 [] c = "6" -> 6 [] c = "7" -> 7
    [] c = "8" -> 8 [] c = "9" -> 9

DigitChar(n) ==
  CASE n = 0 -> "0" [] n = 1 -> "1" [] n = 2 -> "2" [] n = 3 -> "3"
    [] n = 4 -> "4" [] n = 5 -> "5" [] n = 6 -> "6" [] n = 7 -> "7"
    [] n = 8 -> "8" [] n = 9 -> "9"

IsNull(v) == v = Null

IsIntCell(v) == Len(v) > 0 /\ v[1] = "#"

\* expr.cast(pl.Utf8, strict=False): a text stays, an integer cell becomes
\* its decimal digits, null stays null.
CastUtf8(v) ==
  IF IsNull(v) THEN Null
  ELSE IF IsIntCell(v) THEN Tail(v)
  ELSE v

IsSpace(c) == c = " "

RECURSIVE StripStart(_)
StripStart(s) ==
  IF Len(s) > 0 /\ IsSpace(s[1]) THEN StripStart(Tail(s)) ELSE s

RECURSIVE StripEnd(_)
StripEnd(s) ==
  IF Len(s) > 0 /\ IsSpace(s[Len(s)]) THEN StripEnd(SubSeq(s, 1, Len(s) - 1)) ELSE s

\* No trimming at all.
StripChars_none(v) == v

\* str.strip_chars(): leading and trailing whitespace removed; null stays null.
StripChars(v) == IF IsNull(v) THEN Null ELSE StripEnd(StripStart(v))

\* str.replace_all(",", ".")
ReplaceCommas(v) ==
  IF IsNull(v) THEN Null
  ELSE [i \in 1..Len(v) |-> IF v[i] = "," THEN "." ELSE v[i]]

\* polars string concatenation: null if either side is null.
StrCat(a, b) == IF IsNull(a) \/ IsNull(b) THEN Null ELSE a \o b

\* .cast(pl.Float64, strict=False) of a text: TRUE when the text is an
\* optionally signed decimal number (digits with at most one point).
ParsesAsFloat(v) ==
  /\ ~IsNull(v)
  /\ LET body == IF Len(v) > 0 /\ v[1] \in {"-", "+"} THEN Tail(v) ELSE v
         dots == {i \in 1..Len(body) : body[i] = "."}
     IN /\ \A i \in 1..Len(body) : body[i] \in Digits \cup {"."}
        /\ Cardinality(dots) <= 1
        /\ \E i \in 1..Len(body) : body[i] \in Digits

RECURSIVE DigitsValue(_)
DigitsValue(s) ==
  IF Len(s) = 0 THEN 0 ELSE DigitsValue(SubSeq(s, 1, Len(s) - 1)) * 10 + DigitVal(s[Len(s)])

RECURSIVE Pow10(_)
Pow10(k) == IF k = 0 THEN 1 ELSE 10 * Pow10(k - 1)

NullNum == <<0, 0>>

\* .cast(pl.Float64, strict=False): the number as <<numerator, 10^k>>, NullNum
\* (denominator 0) when the cell is null or is not a number.
CastFloat64(v) ==
  LET s == CastUtf8(v) IN
  IF ~ParsesAsFloat(s) THEN NullNum
  ELSE LET neg == s[1] = "-"
           body == IF s[1] \in {"-", "+"} THEN Tail(s) ELSE s
           ds == SelectSeq(body, LAMBDA c : c # ".")
           dot == IF \E i \in 1..Len(body) : body[i] = "."
                  THEN CHOOSE i \in 1..Len(body) : body[i] = "."
                  ELSE Len(body) + 1
           k == Len(body) + 1 - dot - (IF dot <= Len(body) THEN 1 ELSE 0)
           n == DigitsValue(ds)
       IN <<IF neg THEN 0 - n ELSE n, Pow10(IF k < 0 THEN 0 ELSE k)>>

NumIsNull(q) == q[2] = 0

NumLess(q, n) == q[1] < n * q[2]

\* The closed upper bound taken as open.
NumGreater_orEqual(q, n) == q[1] >= n * q[2]

NumGreater(q, n) == q[1] > n * q[2]

(***************************************************************************)
(* Dates                                                                   *)
(***************************************************************************)
NullDate == 0

IsLeap(y) == (y % 4 = 0 /\ y % 100 # 0) \/ y % 400 = 0

DaysInMonth(y, m) ==
  IF m \in {4, 6, 9, 11} THEN 30
  ELSE IF m = 2 THEN (IF IsLeap(y) THEN 29 ELSE 28)
  ELSE 31

\* The regular expression ^\d{4}-\d{2}-\d{2}$ of the simple DM rules.
ISO_DATE_RE(s) ==
  /\ Len(s) = 10
  /\ s[5] = "-" /\ s[8] = "-"
  /\ \A i \in {1, 2, 3, 4, 6, 7, 9, 10} : s[i] \in Digits

\* The pattern alone, without the calendar check.
_parse_iso_date_pattern(v) ==
  LET s == CastUtf8(v) IN
  IF IsNull(s) \/ ~ISO_DATE_RE(s) THEN NullDate
  ELSE LET y == DigitVal(s[1]) * 1000 + DigitVal(s[2]) * 100 + DigitVal(s[3]) * 10 + DigitVal(s[4])
           m == DigitVal(s[6]) * 10 + DigitVal(s[7])
           d == DigitVal(s[9]) * 10 + DigitVal(s[10])
       IN y * 10000 + m * 100 + d

\* _parse_iso_date: strptime(pl.Date, "%Y-%m-%d", strict=False) of the
\* string form; the date as the ordinal y*10000 + m*100 + d, NullDate when
\* the cell is null or does not parse as a calendar date.
_parse_iso_date(v) ==
  LET s == CastUtf8(v) IN
  IF IsNull(s) \/ ~ISO_DATE_RE(s) THEN NullDate
  ELSE LET y == DigitVal(s[1]) * 1000 + DigitVal(s[2]) * 100 + DigitVal(s[3]) * 10 + DigitVal(s[4])
           m == DigitVal(s[6]) * 10 + DigitVal(s[7])
           d == DigitVal(s[9]) * 10 + DigitVal(s[10])
       IN IF m \in 1..12 /\ d >= 1 /\ d <= DaysInMonth(y, m)
          THEN y * 10000 + m * 100 + d
          ELSE NullDate

\* A date cast to Utf8: "YYYY-MM-DD".
DateToUtf8(n) ==
  IF n = NullDate THEN Null
  ELSE LET y == n \div 10000
           m == (n \div 100) % 100
           d == n % 100
       IN << DigitChar(y \div 1000), DigitChar((y \div 100) % 10),
             DigitChar((y \div 10) % 10), DigitChar(y % 10), "-",
             DigitChar(m \div 10), DigitChar(m % 10), "-",
             DigitChar(d \div 10), DigitChar(d % 10) >>

(***************************************************************************)
(* Tables                                                                  *)
(***************************************************************************)
Height(df) == Len(df.rows)

Positions(df) == 1..Len(df.rows)

\* df.with_columns(...): F(row) gives the new cells of a row; a new column
\* replaces an old one of the same name.
WithColumns(df, names, F(_)) ==
  [cols |-> df.cols \cup names,
   rows |-> [i \in 1..Len(df.rows) |-> F(df.rows[i]) @@ df.rows[i]]]

\* df.filter(mask): the rows where the mask is true, in order.
Filter(df, mask(_)) ==
  [cols |-> df.cols, rows |-> SelectSeq(df.rows, mask)]

_ensure_row_index(df) ==
  IF "row_index" \in df.cols THEN df
  ELSE [cols |-> df.cols \cup {"row_index"},
        rows |-> [i \in 1..Len(df.rows) |-> [row_index |-> i - 1] @@ df.rows[i]]]

(***************************************************************************)
(* Findings (domain_validation)                                            *)
(***************************************************************************)
FINDINGS_SCHEMA ==
  << <<"finding_type", "Utf8">>, <<"rule_id", "Utf8">>, <<"severity", "Utf8">>,
     <<"domain", "Utf8">>, <<"field", "Utf8">>, <<"message", "Utf8">>,
     <<"row_index", "Int64">>, <<"usubjid", "Utf8">>, <<"evidence", "Utf8">> >>

ColumnNames(schema) == [i \in 1..Len(schema) |-> schema[i][1]]

_empty_findings == [schema |-> FINDINGS_SCHEMA, rows |-> <<>>]

IsRaised(t) == "raised" \in DOMAIN t

Raised(what) == [schema |-> <<>>, rows |-> <<>>, raised |-> what]

\* The common supertype vertical_relaxed coerces two column dtypes to.
Supertype(a, b) ==
  IF a = b THEN a
  ELSE IF {a, b} = {"UInt32", "Int64"} THEN "Int64"
  ELSE IF a = "Null" THEN b
  ELSE IF b = "Null" THEN a
  ELSE "Utf8"

RECURSIVE pl_concat(_)
\* pl.concat(parts, how="vertical_relaxed"): raises on an empty list and on
\* parts whose column names differ; otherwise the rows in list order.
pl_concat(parts) ==
  IF Len(parts) = 0 THEN Raised("ValueError")
  ELSE IF Len(parts) = 1 THEN parts[1]
  ELSE LET rest == pl_concat(Tail(parts))
           head == parts[1]
       IN IF IsRaised(head) THEN head
          ELSE IF IsRaised(rest) THEN rest
          ELSE IF ColumnNames(head.schema) # ColumnNames(rest.schema) THEN Raised("ShapeError")
          ELSE [schema |-> [i \in 1..Len(head.schema) |->
                              <<head.schema[i][1], Supertype(head.schema[i][2], rest.schema[i][2])>>],
                rows |-> head.rows \o rest.rows]

\* The frames of a list that have at least one row.
NonEmptyParts(parts) == SelectSeq(parts, LAMBDA f : Len(f.rows) > 0)

\* Only the findings of the first rule that has any.
ConcatNonEmpty_first(findings) ==
  IF \E i \in 1..Len(findings) : Len(findings[i].rows) > 0
  THEN NonEmptyParts(findings)[1]
  ELSE _empty_findings

\* The closing expression of every per-domain validator.
ConcatNonEmpty(findings) ==
  IF \E i \in 1..Len(findings) : Len(findings[i].rows) > 0
  THEN pl_concat(NonEmptyParts(findings))
  ELSE _empty_findings

_mk_findings(df, mask(_), finding_type, rule_id, severity, domain, field, message, has_evidence, evidence_expr(_)) ==
  LET df_i == _ensure_row_index(df)
      viol == Filter(df_i, mask)
  IN IF Height(viol) = 0 THEN _empty_findings
     ELSE [schema |-> FINDINGS_SCHEMA,
           rows |-> [i \in 1..Len(viol.rows) |->
              LET r == viol.rows[i] IN
              [finding_type |-> finding_type,
               rule_id |-> rule_id,
               severity |-> severity,
               domain |-> domain,
               field |-> <<field>>,
               message |-> message,
               row_index |-> r["row_index"],
               usubjid |-> IF "USUBJID" \in viol.cols THEN CastUtf8(r["USUBJID"]) ELSE <<>>,
               evidence |-> IF has_evidence THEN evidence_expr(r)
                            ELSE IF field \in viol.cols THEN CastUtf8(r[field])
                            ELSE <<>>]]]

_dataset_level_finding_row0(rule_id, severity, domain, field, message) ==
  [schema |-> FINDINGS_SCHEMA,
   rows |-> << [finding_type |-> IF domain \in {"VS", "AE", "CM"} THEN "SDTM_RULE" ELSE "CROSS_DOMAIN",
                rule_id |-> rule_id,
                severity |-> severity,
                domain |-> domain,
                field |-> field,
                message |-> message,
                row_index |-> 0,
                usubjid |-> <<>>,
                evidence |-> <<>>] >>]

_dataset_level_finding(rule_id, severity, domain, field, message) ==
  [schema |-> FINDINGS_SCHEMA,
   rows |-> << [finding_type |-> IF domain \in {"VS", "AE", "CM"} THEN "SDTM_RULE" ELSE "CROSS_DOMAIN",
                rule_id |-> rule_id,
                severity |-> severity,
                domain |-> domain,
                field |-> field,
                message |-> message,
                row_index |-> -1,
                usubjid |-> <<>>,
                evidence |-> <<>>] >>]

\* [c for c in cols if c not in df.columns], in the order of cols.
MissingColumns(df, cols) == SelectSeq(cols, LAMBDA c : c \notin df.cols)

_require_columns(df, cols, domain) ==
  LET missing == MissingColumns(df, cols) IN
  IF Len(missing) = 0 THEN <<>>
  ELSE << _dataset_level_finding("SDTM_" \o domain \o "_000", "CRIT", domain, missing,
                                 <<"Missing required columns for ", domain>> \o missing) >>

GateFired(findings) == Len(findings) > 0 /\ findings[1].rows[1].severity = "CRIT"

(***************************************************************************)
(* VS validator                                                            *)
(***************************************************************************)
VS_ALLOWED_TESTCD ==
  {<<"S", "Y", "S", "B", "P">>,
   <<"D", "I", "A", "B", "P">>,
   <<"H", "R">>,
   <<"T", "E", "M", "P">>,
   <<"W", "E", "I", "G", "H", "T">>,
   <<"H", "E", "I", "G", "H", "T">>,
   <<"R", "E", "S", "P">>}

VS_UNITS_BY_TESTCD(testcd) ==
  CASE testcd = <<"S", "Y", "S", "B", "P">> -> {<<"m", "m", "H", "g">>}
    [] testcd = <<"D", "I", "A", "B", "P">> -> {<<"m", "m", "H", "g">>}
    [] testcd = <<"H", "R">> -> {<<"b", "p", "m">>}
    [] testcd = <<"R", "E", "S", "P">> -> {<<"b", "r", "e", "a", "t", "h", "s", "/", "m", "i", "n">>, <<"b", "p", "m">>}
    [] testcd = <<"T", "E", "M", "P">> -> {<<"C">>, <<"F">>}
    [] testcd = <<"W", "E", "I", "G", "H", "T">> -> {<<"k", "g">>, <<"g">>, <<"l", "b">>}
    [] testcd = <<"H", "E", "I", "G", "H", "T">> -> {<<"c", "m">>, <<"m">>, <<"i", "n">>}
    [] OTHER -> {}

VS_UNITS_KEYS ==
  {<<"S", "Y", "S", "B", "P">>,
   <<"D", "I", "A", "B", "P">>,
   <<"H", "R">>,
   <<"R", "E", "S", "P">>,
   <<"T", "E", "M", "P">>,
   <<"W", "E", "I", "G", "H", "T">>,
   <<"H", "E", "I", "G", "H", "T">>}

\* Every present value counts as a member.
IsIn_present(v, values) == ~IsNull(v)

\* expr.is_in(values) under a filter: a null cell is not a member.
IsIn(v, values) == ~IsNull(v) /\ v \in values

VS_REQUIRED == <<"USUBJID", "VSTESTCD", "VSORRES", "VSDTC">>

validate_vs(vs) ==
  LET gate == _require_columns(vs, VS_REQUIRED, "VS") IN
  IF GateFired(gate) THEN pl_concat(gate)
  ELSE
  LET vs_i == WithColumns(_ensure_row_index(vs),
                {"USUBJID_S", "VSTESTCD_S", "VSORRES_S", "VSDTC_D"},
                LAMBDA r : [USUBJID_S |-> CastUtf8(r["USUBJID"]),
                            VSTESTCD_S |-> CastUtf8(r["VSTESTCD"]),
                            VSORRES_S |-> CastUtf8(r["VSORRES"]),
                            VSDTC_D |-> _parse_iso_date(r["VSDTC"])])
      f001 == _mk_findings(vs_i,
                LAMBDA r : IsNull(r["USUBJID_S"]) \/ StripChars(r["USUBJID_S"]) = <<>>,
                "SDTM_RULE", "SDTM_VS_001", "HIGH", "VS", "USUBJID",
                <<"USUBJID is required and must be non-empty.">>,
                TRUE, LAMBDA r : r["USUBJID_S"])
      f002 == _mk_findings(vs_i,
                LAMBDA r : ~IsNull(r["VSTESTCD_S"]) /\ ~IsIn(r["VSTESTCD_S"], VS_ALLOWED_TESTCD),
                "SDTM_RULE", "SDTM_VS_002", "MED", "VS", "VSTESTCD",
                <<"VSTESTCD should be one of: VS_ALLOWED_TESTCD">>,
                TRUE, LAMBDA r : r["VSTESTCD_S"])
      f003 == _mk_findings(vs_i,
                LAMBDA r : ~IsNull(r["VSDTC"]) /\ r["VSDTC_D"] = NullDate,
                "SDTM_RULE", "SDTM_VS_003", "LOW", "VS", "VSDTC",
                <<"VSDTC should be ISO date YYYY-MM-DD (subset check).">>,
                TRUE, LAMBDA r : CastUtf8(r["VSDTC"]))
      f004 == _mk_findings(vs_i,
                LAMBDA r : /\ IsIn(r["VSTESTCD_S"], VS_ALLOWED_TESTCD)
                           /\ ~IsNull(r["VSORRES"])
                           /\ NumIsNull(CastFloat64(ReplaceCommas(r["VSORRES_S"]))),
                "SDTM_RULE", "SDTM_VS_004", "HIGH", "VS", "VSORRES",
                <<"VSORRES should be numeric for this VSTESTCD.">>,
                TRUE, LAMBDA r : r["VSORRES_S"])
      f005 == IF "VSORRESU" \in vs_i.cols
              THEN LET vs_u == WithColumns(vs_i, {"VSORRESU_S"},
                                 LAMBDA r : [VSORRESU_S |-> CastUtf8(r["VSORRESU"])])
                   IN _mk_findings(vs_u,
                        LAMBDA r : \E testcd \in VS_UNITS_KEYS :
                                     /\ r["VSTESTCD_S"] = testcd
                                     /\ ~IsNull(r["VSORRESU_S"])
                                     /\ ~IsIn(r["VSORRESU_S"], VS_UNITS_BY_TESTCD(testcd)),
                        "SDTM_RULE", "SDTM_VS_005", "MED", "VS", "VSORRESU",
                        <<"VSORRESU unit is not consistent with VSTESTCD (MVP unit map).">>,
                        TRUE, LAMBDA r : StrCat(StrCat(r["VSTESTCD_S"], <<" ", "/", " ">>), r["VSORRESU_S"]))
              ELSE _dataset_level_finding("SDTM_VS_005", "LOW", "VS", <<"VSORRESU">>,
                     <<"Column VSORRESU not present; unit consistency checks skipped.">>)
  IN ConcatNonEmpty(<<f001, f002, f003, f004, f005>>)

(***************************************************************************)
(* AE validator                                                            *)
(***************************************************************************)
AE_ALLOWED_SER == {<<"Y">>, <<"N">>}

AE_ALLOWED_SEV == {<<"M", "I", "L", "D">>, <<"M", "O", "D", "E", "R", "A", "T", "E">>, <<"S", "E", "V", "E", "R", "E">>}

AE_REQUIRED == <<"USUBJID", "AETERM", "AESTDTC">>

\* findings.append(...) under "if <cond>": a rule that is skipped adds nothing.
Appended(cond, f) == IF cond THEN <<f>> ELSE <<>>

validate_ae(ae) ==
  LET gate == _require_columns(ae, AE_REQUIRED, "AE") IN
  IF GateFired(gate) THEN pl_concat(gate)
  ELSE
  LET ae_i == WithColumns(_ensure_row_index(ae),
                {"USUBJID_S", "AETERM_S", "AESTDTC_D", "AEENDTC_D"},
                LAMBDA r : [USUBJID_S |-> CastUtf8(r["USUBJID"]),
                            AETERM_S |-> CastUtf8(r["AETERM"]),
                            AESTDTC_D |-> _parse_iso_date(r["AESTDTC"]),
                            AEENDTC_D |-> IF "AEENDTC" \in ae.cols
                                          THEN _parse_iso_date(r["AEENDTC"]) ELSE NullDate])
      f001 == _mk_findings(ae_i,
                LAMBDA r : IsNull(r["AETERM_S"]) \/ StripChars(r["AETERM_S"]) = <<>>,
                "SDTM_RULE", "SDTM_AE_001", "HIGH", "AE", "AETERM",
                <<"AETERM is required and must be non-empty.">>,
                TRUE, LAMBDA r : r["AETERM_S"])
      f002 == _mk_findings(ae_i,
                LAMBDA r : ~IsNull(r["AESTDTC"]) /\ r["AESTDTC_D"] = NullDate,
                "SDTM_RULE", "SDTM_AE_002", "MED", "AE", "AESTDTC",
                <<"AESTDTC should be ISO date YYYY-MM-DD (subset check).">>,
                TRUE, LAMBDA r : CastUtf8(r["AESTDTC"]))
      f003 == _mk_findings(ae_i,
                LAMBDA r : ~IsNull(r["AEENDTC"]) /\ r["AEENDTC_D"] = NullDate,
                "SDTM_RULE", "SDTM_AE_003", "LOW", "AE", "AEENDTC",
                <<"AEENDTC should be ISO date YYYY-MM-DD (subset check).">>,
                TRUE, LAMBDA r : CastUtf8(r["AEENDTC"]))
      f004 == _mk_findings(ae_i,
                LAMBDA r : /\ r["AESTDTC_D"] # NullDate /\ r["AEENDTC_D"] # NullDate
                           /\ r["AESTDTC_D"] > r["AEENDTC_D"],
                "SDTM_RULE", "SDTM_AE_004", "HIGH", "AE", "AESTDTC/AEENDTC",
                <<"AESTDTC must be on/before AEENDTC.">>,
                TRUE, LAMBDA r : StrCat(StrCat(CastUtf8(r["AESTDTC"]), <<" ", ">", " ">>), CastUtf8(r["AEENDTC"])))
      f005 == _mk_findings(ae_i,
                LAMBDA r : ~IsNull(r["AESER"]) /\ ~IsIn(CastUtf8(r["AESER"]), AE_ALLOWED_SER),
                "SDTM_RULE", "SDTM_AE_005", "MED", "AE", "AESER",
                <<"AESER should be one of: AE_ALLOWED_SER">>,
                TRUE, LAMBDA r : CastUtf8(r["AESER"]))
      f006 == _mk_findings(ae_i,
                LAMBDA r : ~IsNull(r["AESEV"]) /\ ~IsIn(CastUtf8(r["AESEV"]), AE_ALLOWED_SEV),
                "SDTM_RULE", "SDTM_AE_006", "LOW", "AE", "AESEV",
                <<"AESEV should be one of: AE_ALLOWED_SEV">>,
                TRUE, LAMBDA r : CastUtf8(r["AESEV"]))
  IN ConcatNonEmpty(<<f001, f002>>
                    \o Appended("AEENDTC" \in ae_i.cols, f003)
                    \o Appended("AEENDTC" \in ae.cols, f004)
                    \o Appended("AESER" \in ae.cols, f005)
                    \o Appended("AESEV" \in ae.cols, f006))

(***************************************************************************)
(* CM validator                                                            *)
(***************************************************************************)
CM_REQUIRED == <<"USUBJID", "CMTRT", "CMSTDTC">>

validate_cm(cm) ==
  LET gate == _require_columns(cm, CM_REQUIRED, "CM") IN
  IF GateFired(gate) THEN pl_concat(gate)
  ELSE
  LET cm_i == WithColumns(_ensure_row_index(cm),
                {"USUBJID_S", "CMTRT_S", "CMSTDTC_D", "CMENDTC_D"},
                LAMBDA r : [USUBJID_S |-> CastUtf8(r["USUBJID"]),
                            CMTRT_S |-> CastUtf8(r["CMTRT"]),
                            CMSTDTC_D |-> _parse_iso_date(r["CMSTDTC"]),
                            CMENDTC_D |-> IF "CMENDTC" \in cm.cols
                                          THEN _parse_iso_date(r["CMENDTC"]) ELSE NullDate])
      f001 == _mk_findings(cm_i,
                LAMBDA r : IsNull(r["CMTRT_S"]) \/ StripChars(r["CMTRT_S"]) = <<>>,
                "SDTM_RULE", "SDTM_CM_001", "HIGH", "CM", "CMTRT",
                <<"CMTRT is required and must be non-empty.">>,
                TRUE, LAMBDA r : r["CMTRT_S"])
      f002 == _mk_findings(cm_i,
                LAMBDA r : ~IsNull(r["CMSTDTC"]) /\ r["CMSTDTC_D"] = NullDate,
                "SDTM_RULE", "SDTM_CM_002", "MED", "CM", "CMSTDTC",
                <<"CMSTDTC should be ISO date YYYY-MM-DD (subset check).">>,
                TRUE, LAMBDA r : CastUtf8(r["CMSTDTC"]))
      f003 == _mk_findings(cm_i,
                LAMBDA r : ~IsNull(r["CMENDTC"]) /\ r["CMENDTC_D"] = NullDate,
                "SDTM_RULE", "SDTM_CM_003", "LOW", "CM", "CMENDTC",
                <<"CMENDTC should be ISO date YYYY-MM-DD (subset check).">>,
                TRUE, LAMBDA r : CastUtf8(r["CMENDTC"]))
      f004 == _mk_findings(cm_i,
                LAMBDA r : /\ r["CMSTDTC_D"] # NullDate /\ r["CMENDTC_D"] # NullDate
                           /\ r["CMSTDTC_D"] > r["CMENDTC_D"],
                "SDTM_RULE", "SDTM_CM_004", "HIGH", "CM", "CMSTDTC/CMENDTC",
                <<"CMSTDTC must be on/before CMENDTC.">>,
                TRUE, LAMBDA r : StrCat(StrCat(CastUtf8(r["CMSTDTC"]), <<" ", ">", " ">>), CastUtf8(r["CMENDTC"])))
  IN ConcatNonEmpty(<<f001, f002>>
                    \o Appended("CMENDTC" \in cm.cols, f003)
                    \o Appended("CMENDTC" \in cm.cols, f004))

(***************************************************************************)
(* DM validator (domain_validation)                                        *)
(***************************************************************************)
DM_ALLOWED_SEX == {<<"M">>, <<"F">>, <<"U">>}

DM_ALLOWED_AGEU == {<<"Y", "E", "A", "R", "S">>, <<"M", "O", "N", "T", "H", "S">>, <<"D", "A", "Y", "S">>}

DM_REQUIRED == <<"USUBJID", "STUDYID">>

\* expr.is_duplicated() over the rows of a frame: the value of column c in
\* row i occurs in another row as well.
\* Only the later occurrences of a value.
IsDuplicated_later(rows, c, i) == \E j \in 1..Len(rows) : j < i /\ rows[j][c] = rows[i][c]

IsDuplicated(rows, c, i) == \E j \in 1..Len(rows) : j # i /\ rows[j][c] = rows[i][c]

\* The rows of a frame that is_duplicated() marks, in order.
Duplicated(df, c) ==
  [cols |-> df.cols,
   rows |-> LET keep == {i \in 1..Len(df.rows) : IsDuplicated(df.rows, c, i)}
                Pick[i \in 0..Len(df.rows)] ==
                  IF i = 0 THEN <<>>
                  ELSE IF i \in keep THEN Append(Pick[i - 1], df.rows[i]) ELSE Pick[i - 1]
            IN Pick[Len(df.rows)]]

DmDupes(dm_i) ==
  Duplicated(Filter(dm_i, LAMBDA r : ~IsNull(r["USUBJID_S"]) /\ StripChars(r["USUBJID_S"]) # <<>>),
             "USUBJID_S")

validate_dm(dm) ==
  LET gate == _require_columns(dm, DM_REQUIRED, "DM") IN
  IF GateFired(gate) THEN pl_concat(gate)
  ELSE
  LET dm_i == WithColumns(_ensure_row_index(dm),
                {"USUBJID_S", "STUDYID_S", "SEX_S", "AGE_N", "AGEU_S", "RFSTDTC_D", "RFENDTC_D"},
                LAMBDA r : [USUBJID_S |-> CastUtf8(r["USUBJID"]),
                            STUDYID_S |-> CastUtf8(r["STUDYID"]),
                            SEX_S |-> IF "SEX" \in dm.cols THEN CastUtf8(r["SEX"]) ELSE Null,
                            AGE_N |-> IF "AGE" \in dm.cols THEN CastFloat64(r["AGE"]) ELSE NullNum,
                            AGEU_S |-> IF "AGEU" \in dm.cols THEN CastUtf8(r["AGEU"]) ELSE Null,
                            RFSTDTC_D |-> IF "RFSTDTC" \in dm.cols
                                          THEN _parse_iso_date(r["RFSTDTC"]) ELSE NullDate,
                            RFENDTC_D |-> IF "RFENDTC" \in dm.cols
                                          THEN _parse_iso_date(r["RFENDTC"]) ELSE NullDate])
      f001 == _mk_findings(dm_i,
                LAMBDA r : IsNull(r["USUBJID_S"]) \/ StripChars(r["USUBJID_S"]) = <<>>,
                "SDTM_RULE", "SDTM_DM_001", "HIGH", "DM", "USUBJID",
                <<"USUBJID is required and must be non-empty.">>,
                TRUE, LAMBDA r : r["USUBJID_S"])
      dupes == DmDupes(dm_i)
      f002 == [schema |-> FINDINGS_SCHEMA,
               rows |-> [i \in 1..Len(dupes.rows) |->
                  [finding_type |-> "SDTM_RULE",
                   rule_id |-> "SDTM_DM_002",
                   severity |-> "HIGH",
                   domain |-> "DM",
                   field |-> <<"USUBJID">>,
                   message |-> <<"USUBJID must be unique in DM.">>,
                   row_index |-> dupes.rows[i]["row_index"],
                   usubjid |-> dupes.rows[i]["USUBJID_S"],
                   evidence |-> dupes.rows[i]["USUBJID_S"]]]]
      f003 == _mk_findings(dm_i,
                LAMBDA r : ~IsNull(r["SEX_S"]) /\ ~IsIn(r["SEX_S"], DM_ALLOWED_SEX),
                "SDTM_RULE", "SDTM_DM_003", "MED", "DM", "SEX",
                <<"SEX should be one of: DM_ALLOWED_SEX">>,
                TRUE, LAMBDA r : r["SEX_S"])
      f004 == _mk_findings(dm_i,
                LAMBDA r : /\ ~NumIsNull(r["AGE_N"])
                           /\ (NumLess(r["AGE_N"], 0) \/ NumGreater(r["AGE_N"], 120)),
                "SDTM_RULE", "SDTM_DM_004", "MED", "DM", "AGE",
                <<"AGE should be between 0 and 120 (MVP heuristic).">>,
                TRUE, LAMBDA r : CastUtf8(r["AGE"]))
      f005 == _mk_findings(dm_i,
                LAMBDA r : /\ ~NumIsNull(r["AGE_N"])
                           /\ (IsNull(r["AGEU_S"]) \/ ~IsIn(r["AGEU_S"], DM_ALLOWED_AGEU)),
                "SDTM_RULE", "SDTM_DM_005", "LOW", "DM", "AGEU",
                <<"AGEU should be one of: DM_ALLOWED_AGEU when AGE is present.">>,
                TRUE, LAMBDA r : r["AGEU_S"])
      f006 == _mk_findings(dm_i,
                LAMBDA r : ~IsNull(r["RFSTDTC"]) /\ r["RFSTDTC_D"] = NullDate,
                "SDTM_RULE", "SDTM_DM_006", "LOW", "DM", "RFSTDTC",
                <<"RFSTDTC should be ISO date YYYY-MM-DD (subset check).">>,
                TRUE, LAMBDA r : CastUtf8(r["RFSTDTC"]))
      f007 == _mk_findings(dm_i,
                LAMBDA r : ~IsNull(r["RFENDTC"]) /\ r["RFENDTC_D"] = NullDate,
                "SDTM_RULE", "SDTM_DM_007", "LOW", "DM", "RFENDTC",
                <<"RFENDTC should be ISO date YYYY-MM-DD (subset check).">>,
                TRUE, LAMBDA r : CastUtf8(r["RFENDTC"]))
      f008 == _mk_findings(dm_i,
                LAMBDA r : /\ r["RFSTDTC_D"] # NullDate /\ r["RFENDTC_D"] # NullDate
                           /\ r["RFSTDTC_D"] > r["RFENDTC_D"],
                "SDTM_RULE", "SDTM_DM_008", "HIGH", "DM", "RFSTDTC/RFENDTC",
                <<"RFSTDTC must be on/before RFENDTC.">>,
                TRUE, LAMBDA r : StrCat(StrCat(CastUtf8(r["RFSTDTC"]), <<" ", ">", " ">>), CastUtf8(r["RFENDTC"])))
  IN ConcatNonEmpty(<<f001>>
                    \o Appended(Height(dupes) > 0, f002)
                    \o Appended("SEX" \in dm.cols, f003)
                    \o Appended("AGE" \in dm.cols, f004)
                    \o Appended("AGE" \in dm.cols /\ "AGEU" \in dm.cols, f005)
                    \o Appended("RFSTDTC" \in dm.cols, f006)
                    \o Appended("RFENDTC" \in dm.cols, f007)
                    \o Appended("RFSTDTC" \in dm.cols /\ "RFENDTC" \in dm.cols, f008))

(***************************************************************************)
(* The simple DM rules (sdtm_rules)                                        *)
(***************************************************************************)
SdtmSchema(row_index_type) ==
  << <<"finding_type", "Utf8">>, <<"rule_id", "Utf8">>, <<"severity", "Utf8">>,
     <<"field", "Utf8">>, <<"message", "Utf8">>,
     <<"row_index", row_index_type>>, <<"evidence", "Utf8">> >>

\* df.with_row_index("row_index"): raises when the column exists already.
WithRowIndex(df) ==
  [cols |-> df.cols \cup {"row_index"},
   rows |-> [i \in 1..Len(df.rows) |-> [row_index |-> i - 1] @@ df.rows[i]]]

sdtm_mk_findings(df, mask(_), rule_id, severity, field, message) ==
  IF "row_index" \in df.cols THEN Raised("DuplicateError")
  ELSE
  LET df_i == WithRowIndex(df)
      viol == Filter(df_i, mask)
  IN IF Height(viol) = 0 THEN [schema |-> SdtmSchema("Int64"), rows |-> <<>>]
     ELSE [schema |-> SdtmSchema("UInt32"),
           rows |-> [i \in 1..Len(viol.rows) |->
              [finding_type |-> "SDTM_RULE",
               rule_id |-> rule_id,
               severity |-> severity,
               field |-> <<field>>,
               message |-> message,
               row_index |-> viol.rows[i]["row_index"],
               evidence |-> IF field \in df.cols THEN CastUtf8(viol.rows[i][field]) ELSE <<>>]]]

SdtmDupes(df) ==
  Duplicated(WithColumns(Filter(WithRowIndex(df), LAMBDA r : ~IsNull(r["USUBJID"])),
                         {"USUBJID_S"}, LAMBDA r : [USUBJID_S |-> CastUtf8(r["USUBJID"])]),
             "USUBJID_S")

\* The gated DM validator in place of the simple DM rules.
sdtm_validate_dm_gated(df) ==
  LET missing == SelectSeq(<<"USUBJID", "STUDYID">>, LAMBDA c : c \notin df.cols) IN
  IF Len(missing) = 0 THEN [schema |-> SdtmSchema("Int64"), rows |-> <<>>]
  ELSE [schema |-> SdtmSchema("Int64"),
        rows |-> << [finding_type |-> "SDTM_RULE",
                     rule_id |-> "SDTM_DM_000",
                     severity |-> "CRIT",
                     field |-> missing,
                     message |-> <<"Missing required columns for DM">>,
                     row_index |-> -1,
                     evidence |-> <<>>] >>]

sdtm_validate_dm(df) ==
  LET f001 == sdtm_mk_findings(df,
                LAMBDA r : IsNull(r["USUBJID"]) \/ StripChars(CastUtf8(r["USUBJID"])) = <<>>,
                "SDTM_DM_001", "HIGH", "USUBJID",
                <<"USUBJID is required and must be non-empty.">>)
      dupes == SdtmDupes(df)
      f002 == [schema |-> SdtmSchema("UInt32"),
               rows |-> [i \in 1..Len(dupes.rows) |->
                  [finding_type |-> "SDTM_RULE",
                   rule_id |-> "SDTM_DM_002",
                   severity |-> "HIGH",
                   field |-> <<"USUBJID">>,
                   message |-> <<"USUBJID must be unique in DM.">>,
                   row_index |-> dupes.rows[i]["row_index"],
                   evidence |-> dupes.rows[i]["USUBJID_S"]]]]
      missing == [schema |-> SdtmSchema("Int64"),
                  rows |-> << [finding_type |-> "SDTM_RULE",
                               rule_id |-> "SDTM_DM_001",
                               severity |-> "HIGH",
                               field |-> <<"USUBJID">>,
                               message |-> <<"Missing required column USUBJID.">>,
                               row_index |-> -1,
                               evidence |-> <<>>] >>]
      f003 == sdtm_mk_findings(df,
                LAMBDA r : IsNull(r["STUDYID"]) \/ StripChars(CastUtf8(r["STUDYID"])) = <<>>,
                "SDTM_DM_003", "HIGH", "STUDYID",
                <<"STUDYID is required and must be non-empty.">>)
      f004 == sdtm_mk_findings(df,
                LAMBDA r : ~IsNull(r["SEX"]) /\ ~IsIn(CastUtf8(r["SEX"]), DM_ALLOWED_SEX),
                "SDTM_DM_004", "MED", "SEX",
                <<"SEX must be one of: M, F, U.">>)
      f005 == sdtm_mk_findings(df,
                LAMBDA r : /\ ~NumIsNull(CastFloat64(r["AGE"]))
                           /\ (NumLess(CastFloat64(r["AGE"]), 0) \/ NumGreater(CastFloat64(r["AGE"]), 120)),
                "SDTM_DM_005", "MED", "AGE",
                <<"AGE should be between 0 and 120 for typical adult/human studies.">>)
      f006 == sdtm_mk_findings(df,
                LAMBDA r : ~IsNull(r["RFSTDTC"]) /\ ~ISO_DATE_RE(CastUtf8(r["RFSTDTC"])),
                "SDTM_DM_006", "LOW", "RFSTDTC",
                <<"RFSTDTC should be ISO 8601 date format YYYY-MM-DD (subset check).">>)
      findings ==
        (IF "USUBJID" \in df.cols
         THEN <<f001>> \o Appended(Height(dupes) > 0, f002)
         ELSE <<missing>>)
        \o Appended("STUDYID" \in df.cols, f003)
        \o Appended("SEX" \in df.cols, f004)
        \o Appended("AGE" \in df.cols, f005)
        \o Appended("RFSTDTC" \in df.cols, f006)
  IN IF Len(findings) = 0 THEN [schema |-> <<>>, rows |-> <<>>]
     ELSE pl_concat(findings)

(***************************************************************************)
(* Cross-domain checks                                                     *)
(***************************************************************************)
SetMin(S) == CHOOSE x \in S : \A y \in S : x <= y

\* The least element taken for the greatest.
SetMax_least(S) == CHOOSE x \in S : \A y \in S : x <= y

SetMax(S) == CHOOSE x \in S : \A y \in S : x >= y

\* The keys trimmed of surrounding whitespace before the join.
JoinKeys_trimmed(df, c) == {StripChars(df.rows[i][c]) : i \in 1..Len(df.rows)} \ {Null}

\* The keys of frame.select(col).unique() that a join can match: a null key
\* matches nothing.
JoinKeys(df, c) == {df.rows[i][c] : i \in 1..Len(df.rows)} \ {Null}

\* left.join(right_keys, on=c, how="anti"): the left rows without a match,
\* in left order.
\* A join in place of the anti-join: the rows with a match.
AntiJoin_matching(left, c, keys) == Filter(left, LAMBDA r : r[c] \in keys)

AntiJoin(left, c, keys) == Filter(left, LAMBDA r : r[c] \notin keys)

OrphanFindings(orphans, rule_id, message) ==
  [schema |-> FINDINGS_SCHEMA,
   rows |-> [i \in 1..Len(orphans.rows) |->
      [finding_type |-> "CROSS_DOMAIN",
       rule_id |-> rule_id,
       severity |-> "HIGH",
       domain |-> "CROSS",
       field |-> <<"USUBJID">>,
       message |-> message,
       row_index |-> orphans.rows[i]["row_index"],
       usubjid |-> orphans.rows[i]["USUBJID_S"],
       evidence |-> orphans.rows[i]["USUBJID_S"]]]]

\* The dates of column c that parsed, over the rows of a subject that pass keep.
GroupDates(df, subj, c, keep(_)) ==
  {df.rows[i][c] : i \in {j \in 1..Len(df.rows) :
      df.rows[j]["USUBJID_S"] = subj /\ keep(df.rows[j]) /\ df.rows[j][c] # NullDate}}

RangeEvidence(date, lo, hi) ==
  StrCat(StrCat(StrCat(StrCat(StrCat(CastUtf8(date), <<" ", "v", "s", " ", "[">>),
         DateToUtf8(lo)), <<",", " ">>), DateToUtf8(hi)), <<"]">>)

\* group_by(...) without maintain_order: the groups come in an order that is
\* not fixed from one call to the next, any order of the keys.
GroupOrders(keys) ==
  {f \in [1..Cardinality(keys) -> keys] : \A i, j \in 1..Cardinality(keys) : f[i] = f[j] => i = j}

RECURSIVE RowsByGroup(_, _)
RowsByGroup(rows, groups) ==
  IF Len(groups) = 0 THEN <<>>
  ELSE SelectSeq(rows, LAMBDA r : r["USUBJID_S"] = groups[1] /\ r["USUBJID_S"] # Null)
       \o RowsByGroup(rows, Tail(groups))

\* left.join(grouped, on="USUBJID_S", how="inner"), grouped having one row
\* per key of groups, in that order: the hash join probes the longer frame,
\* so the rows come in left order when left is the longer one and group by
\* group, in the order of grouped, otherwise.  A null key matches nothing.
InnerJoin(left, groups) ==
  [cols |-> left.cols,
   rows |-> IF Len(left.rows) > Len(groups)
            THEN SelectSeq(left.rows, LAMBDA r :
                   r["USUBJID_S"] # Null /\ \E g \in 1..Len(groups) : groups[g] = r["USUBJID_S"])
            ELSE RowsByGroup(left.rows, groups)]

\* vs_range: per subject with a parsed VSDTC, the least and the greatest.
VsRangeSubjects(vs_i) ==
  {vs_i.rows[i]["USUBJID_S"] : i \in {j \in 1..Len(vs_i.rows) : vs_i.rows[j]["VSDTC_D"] # NullDate}}

VS_MIN(vs_i, subj) == SetMin(GroupDates(vs_i, subj, "VSDTC_D", LAMBDA r : TRUE))

VS_MAX(vs_i, subj) == SetMax(GroupDates(vs_i, subj, "VSDTC_D", LAMBDA r : TRUE))

\* groups: the keys of vs_range in the order group_by yields them.
validate_vs_ae(vs, ae, groups) ==
  IF (\E c \in {"USUBJID", "VSDTC"} : c \notin vs.cols)
     \/ (\E c \in {"USUBJID", "AESTDTC"} : c \notin ae.cols)
  THEN _dataset_level_finding("X_VSAE_000", "CRIT", "CROSS", <<"USUBJID/--DTC">>,
         <<"Missing required columns for VS/AE cross checks (need VS.USUBJID,VSDTC and AE.USUBJID,AESTDTC).">>)
  ELSE
  LET vs_i == WithColumns(_ensure_row_index(vs), {"USUBJID_S", "VSDTC_D"},
                LAMBDA r : [USUBJID_S |-> CastUtf8(r["USUBJID"]),
                            VSDTC_D |-> _parse_iso_date(r["VSDTC"])])
      ae_i == WithColumns(_ensure_row_index(ae), {"USUBJID_S", "AESTDTC_D"},
                LAMBDA r : [USUBJID_S |-> CastUtf8(r["USUBJID"]),
                            AESTDTC_D |-> _parse_iso_date(r["AESTDTC"])])
      vs_subjects == JoinKeys(vs_i, "USUBJID_S")
      ae_orphans == OrphanFindings(AntiJoin(ae_i, "USUBJID_S", vs_subjects), "X_VSAE_001",
                      <<"AE subject not found in VS (orphan USUBJID).">>)
      ae_with_range == InnerJoin(ae_i, groups)
      out_of_range == Filter(ae_with_range, LAMBDA r :
                        /\ r["AESTDTC_D"] # NullDate
                        /\ (r["AESTDTC_D"] < VS_MIN(vs_i, r["USUBJID_S"])
                            \/ r["AESTDTC_D"] > VS_MAX(vs_i, r["USUBJID_S"])))
      f002 == [schema |-> FINDINGS_SCHEMA,
               rows |-> [i \in 1..Len(out_of_range.rows) |->
                  LET r == out_of_range.rows[i] IN
                  [finding_type |-> "CROSS_DOMAIN",
                   rule_id |-> "X_VSAE_002",
                   severity |-> "MED",
                   domain |-> "CROSS",
                   field |-> <<"AESTDTC">>,
                   message |-> <<"AE start date is outside the subject's VS date range (MVP heuristic).">>,
                   row_index |-> r["row_index"],
                   usubjid |-> r["USUBJID_S"],
                   evidence |-> RangeEvidence(r["AESTDTC"], VS_MIN(vs_i, r["USUBJID_S"]),
                                              VS_MAX(vs_i, r["USUBJID_S"]))]]]
      findings == Appended(Len(ae_orphans.rows) > 0, ae_orphans)
                  \o Appended(Height(out_of_range) > 0, f002)
  IN IF Len(findings) > 0 THEN pl_concat(findings) ELSE _empty_findings

\* cm_windows: per subject with a parsed CMSTDTC, the least start and the
\* greatest parsed CMENDTC of those rows (NullDate when none parsed).
CmWindowSubjects(cm_i) ==
  {cm_i.rows[i]["USUBJID_S"] : i \in {j \in 1..Len(cm_i.rows) : cm_i.rows[j]["CMSTDTC_D"] # NullDate}}

CM_MIN(cm_i, subj) == SetMin(GroupDates(cm_i, subj, "CMSTDTC_D", LAMBDA r : TRUE))

CM_MAX(cm_i, subj) ==
  LET ends == GroupDates(cm_i, subj, "CMENDTC_D", LAMBDA r : r["CMSTDTC_D"] # NullDate)
  IN IF ends = {} THEN NullDate ELSE SetMax(ends)

\* groups: the keys of cm_windows in the order group_by yields them.
validate_vs_cm(vs, cm, groups) ==
  IF (\E c \in {"USUBJID", "VSDTC"} : c \notin vs.cols)
     \/ (\E c \in {"USUBJID", "CMSTDTC"} : c \notin cm.cols)
  THEN _dataset_level_finding("X_VSCM_000", "CRIT", "CROSS", <<"USUBJID/--DTC">>,
         <<"Missing required columns for VS/CM cross checks (need VS.USUBJID,VSDTC and CM.USUBJID,CMSTDTC).">>)
  ELSE
  LET vs_i == WithColumns(_ensure_row_index(vs), {"USUBJID_S", "VSDTC_D"},
                LAMBDA r : [USUBJID_S |-> CastUtf8(r["USUBJID"]),
                            VSDTC_D |-> _parse_iso_date(r["VSDTC"])])
      cm_i == WithColumns(_ensure_row_index(cm), {"USUBJID_S", "CMSTDTC_D", "CMENDTC_D"},
                LAMBDA r : [USUBJID_S |-> CastUtf8(r["USUBJID"]),
                            CMSTDTC_D |-> _parse_iso_date(r["CMSTDTC"]),
                            CMENDTC_D |-> IF "CMENDTC" \in cm.cols
                                          THEN _parse_iso_date(r["CMENDTC"]) ELSE NullDate])
      vs_subjects == JoinKeys(vs_i, "USUBJID_S")
      cm_orphans == OrphanFindings(AntiJoin(cm_i, "USUBJID_S", vs_subjects), "X_VSCM_001",
                      <<"CM subject not found in VS (orphan USUBJID).">>)
      vs_with_cm == InnerJoin(vs_i, groups)
      out == Filter(vs_with_cm, LAMBDA r :
               /\ r["VSDTC_D"] # NullDate
               /\ CM_MAX(cm_i, r["USUBJID_S"]) # NullDate
               /\ (r["VSDTC_D"] < CM_MIN(cm_i, r["USUBJID_S"])
                   \/ r["VSDTC_D"] > CM_MAX(cm_i, r["USUBJID_S"])))
      f002 == [schema |-> FINDINGS_SCHEMA,
               rows |-> [i \in 1..Len(out.rows) |->
                  LET r == out.rows[i] IN
                  [finding_type |-> "CROSS_DOMAIN",
                   rule_id |-> "X_VSCM_002",
                   severity |-> "LOW",
                   domain |-> "CROSS",
                   field |-> <<"VSDTC">>,
                   message |-> <<"VS date is outside the subject's CM medication window (MVP heuristic).">>,
                   row_index |-> r["row_index"],
                   usubjid |-> r["USUBJID_S"],
                   evidence |-> RangeEvidence(r["VSDTC"], CM_MIN(cm_i, r["USUBJID_S"]),
                                              CM_MAX(cm_i, r["USUBJID_S"]))]]]
      findings == Appended(Len(cm_orphans.rows) > 0, cm_orphans)
                  \o Appended("CMENDTC" \in cm.cols /\ Height(out) > 0, f002)
  IN IF Len(findings) > 0 THEN pl_concat(findings) ELSE _empty_findings

\* The orders in which group_by can yield the keys of column date of frame
\* df, the subjects with a date that parses; the order shows in the result
\* only when the inner join probes the grouped frame.
JoinOrders(df, date, left) ==
  IF ~({"USUBJID", date} \subseteq df.cols) THEN {<<>>}
  ELSE LET keys == {CastUtf8(df.rows[i]["USUBJID"]) :
                      i \in {j \in 1..Len(df.rows) : _parse_iso_date(df.rows[j][date]) # NullDate}}
       IN IF Len(left.rows) > Cardinality(keys)
          THEN {CHOOSE f \in GroupOrders(keys) : TRUE}
          ELSE GroupOrders(keys)

\* The results a call of validate_vs_ae can return.
validate_vs_ae_results(vs, ae) ==
  {validate_vs_ae(vs, ae, groups) : groups \in JoinOrders(vs, "VSDTC", ae)}

\* The results a call of validate_vs_cm can return.
validate_vs_cm_results(vs, cm) ==
  {validate_vs_cm(vs, cm, groups) : groups \in JoinOrders(cm, "CMSTDTC", vs)}

\* validate_dm_link of domain_validation.
validate_dm_link(dm, other, other_domain) ==
  IF "USUBJID" \notin dm.cols \/ "USUBJID" \notin other.cols
  THEN _dataset_level_finding("X_DMLINK_" \o other_domain \o "_000", "CRIT", "CROSS", <<"USUBJID">>,
         <<"Missing USUBJID for DM/", other_domain, " link check.">>)
  ELSE
  LET dm_u == JoinKeys(WithColumns(_ensure_row_index(dm), {"USUBJID_S"},
                         LAMBDA r : [USUBJID_S |-> CastUtf8(r["USUBJID"])]), "USUBJID_S")
      ot == WithColumns(_ensure_row_index(other), {"USUBJID_S"},
              LAMBDA r : [USUBJID_S |-> CastUtf8(r["USUBJID"])])
      orphans == OrphanFindings(AntiJoin(ot, "USUBJID_S", dm_u),
                   "X_DMLINK_" \o other_domain \o "_001",
                   <<other_domain, " subject not found in DM (orphan USUBJID).">>)
  IN IF Len(orphans.rows) > 0 THEN orphans ELSE _empty_findings

\* A link check that passes over the rows without a subject.
rv_validate_dm_link_nonnull(dm, other, other_domain) ==
  IF "USUBJID" \notin other.cols THEN validate_dm_link(dm, other, other_domain)
  ELSE validate_dm_link(dm, Filter(other, LAMBDA r : r["USUBJID"] # Null), other_domain)

\* validate_dm_link of run_validator, the one the runs call.
rv_validate_dm_link(dm, other, other_domain) ==
  IF "USUBJID" \notin dm.cols \/ "USUBJID" \notin other.cols
  THEN [schema |-> FINDINGS_SCHEMA,
        rows |-> << [finding_type |-> "CROSS_DOMAIN",
                     rule_id |-> "X_DMLINK_" \o other_domain \o "_000",
                     severity |-> "CRIT",
                     domain |-> "CROSS",
                     field |-> <<"USUBJID">>,
                     message |-> <<"Missing USUBJID for DM/", other_domain, " link check.">>,
                     row_index |-> -1,
                     usubjid |-> <<>>,
                     evidence |-> <<>>] >>]
  ELSE
  LET dm_u == JoinKeys(WithColumns(_ensure_row_index(dm), {"USUBJID_S"},
                         LAMBDA r : [USUBJID_S |-> CastUtf8(r["USUBJID"])]), "USUBJID_S")
      ot == WithColumns(_ensure_row_index(other), {"USUBJID_S"},
              LAMBDA r : [USUBJID_S |-> CastUtf8(r["USUBJID"])])
      orphans == AntiJoin(ot, "USUBJID_S", dm_u)
  IN IF Height(orphans) = 0 THEN _empty_findings
     ELSE OrphanFindings(orphans, "X_DMLINK_" \o other_domain \o "_001",
            <<other_domain, " subject not found in DM (orphan USUBJID).">>)

(***************************************************************************)
(* Dataset-JSON reader: findings helpers, structure checks, extraction     *)
(*                                                                         *)
(* A document is [attrs, clinicalData, referenceData, itemGroupData, ig]:  *)
(* attrs the top-level attributes present; clinicalData / referenceData    *)
(* one of "absent", "emptyList", "emptyObject", "text", "object";          *)
(* itemGroupData one of "absent", "list", "object" (read when the root is  *)
(* an object); ig the map from a domain name to its dataset [items,        *)
(* itemDataIsList, itemData], itemData the list of records.                *)
(***************************************************************************)
DJ_FINDINGS_SCHEMA ==
  << <<"finding_type", "Utf8">>, <<"rule_id", "Utf8">>, <<"severity", "Utf8">>,
     <<"field", "Utf8">>, <<"message", "Utf8">>,
     <<"row_index", "Int64">>, <<"evidence", "Utf8">> >>

empty_findings == [schema |-> DJ_FINDINGS_SCHEMA, rows |-> <<>>]

finding(rule_id, severity, field, message, row_index, evidence) ==
  [schema |-> DJ_FINDINGS_SCHEMA,
   rows |-> << [finding_type |-> "DATASET_JSON",
                rule_id |-> rule_id,
                severity |-> severity,
                field |-> field,
                message |-> message,
                row_index |-> row_index,
                evidence |-> evidence] >>]

Width(f) == Len(f.schema)

concat_findings(parts) ==
  LET kept == SelectSeq(parts, LAMBDA f : Width(f) > 0) IN
  IF Len(kept) = 0 THEN empty_findings ELSE pl_concat(kept)

Truthy(kind) == kind \in {"text", "object"}

\* doc.get("clinicalData") or doc.get("referenceData")
RootKind(doc) ==
  IF Truthy(doc.clinicalData) THEN doc.clinicalData
  ELSE IF doc.referenceData = "absent" THEN "none"
  ELSE doc.referenceData

IsDict(kind) == kind \in {"object", "emptyObject"}

get_root(doc) == IF IsDict(RootKind(doc)) THEN RootKind(doc) ELSE "none"

\* root.get("itemGroupData"): an empty object has no member.
RootItemGroupData(doc) == IF RootKind(doc) = "object" THEN doc.itemGroupData ELSE "absent"

\* The itemGroupData mapping or the empty mapping.
get_itemgroup_map(doc) ==
  IF IsDict(get_root(doc)) /\ RootItemGroupData(doc) = "object" THEN doc.ig ELSE <<>>

DomainOrder == <<"DM", "VS", "AE", "CM">>

list_itemgroups(doc) ==
  SelectSeq(DomainOrder, LAMBDA d : d \in DOMAIN get_itemgroup_map(doc))

validate_top_level(doc) ==
  LET f000 == [i \in 1..2 |->
                 LET req == <<"creationDateTime", "datasetJSONVersion">>[i] IN
                 IF req \notin doc.attrs
                 THEN <<finding("DJ_000", "CRIT", <<req>>,
                                <<"Missing required top-level attribute: ", req>>, -1, <<>>)>>
                 ELSE <<>>]
      findings == f000[1] \o f000[2]
  IN IF doc.clinicalData = "absent" /\ doc.referenceData = "absent"
     THEN concat_findings(Append(findings,
            finding("DJ_001", "CRIT", <<"clinicalData/referenceData">>,
                    <<"Dataset-JSON must include either clinicalData or referenceData.">>, -1, <<>>)))
     ELSE IF ~IsDict(RootKind(doc))
     THEN concat_findings(Append(findings,
            finding("DJ_002", "CRIT", <<"clinicalData/referenceData">>,
                    <<"clinicalData/referenceData must be a JSON object.">>, -1, <<RootKind(doc)>>)))
     ELSE IF RootItemGroupData(doc) = "absent"
     THEN concat_findings(Append(findings,
            finding("DJ_003", "CRIT", <<"itemGroupData">>,
                    <<"Missing itemGroupData object under clinicalData/referenceData.">>, -1, <<>>)))
     ELSE IF RootItemGroupData(doc) # "object"
     THEN concat_findings(Append(findings,
            finding("DJ_004", "CRIT", <<"itemGroupData">>,
                    <<"itemGroupData must be a JSON object mapping dataset OIDs to datasets.">>,
                    -1, <<RootItemGroupData(doc)>>)))
     ELSE concat_findings(findings)

\* pl.DataFrame(): no column, no row.
EmptyFrame == [cols |-> {}, rows |-> <<>>]

\* (rec + [None] * len(col_names))[: len(col_names)]
Fixed(rec, n) == [k \in 1..n |-> IF k <= Len(rec) THEN rec[k] ELSE Null]

IndexOf(seq, x) == CHOOSE k \in 1..Len(seq) : seq[k] = x

\* itemgroup_to_polars with strict=False, for a dataset whose items are
\* objects with distinct names and whose records are arrays.
itemgroup_to_polars(doc, oid) ==
  LET ds == get_itemgroup_map(doc)[oid]
      col_names == ds.items
      f101 == IF Len(ds.items) = 0
              THEN <<finding("DJ_101", "CRIT", <<oid, ".items">>,
                             <<"Dataset must include a non-empty 'items' array.">>, -1, <<>>)>>
              ELSE <<>>
      f102 == IF ~ds.itemDataIsList
              THEN <<finding("DJ_102", "CRIT", <<oid, ".itemData">>,
                             <<"'itemData' must be an array of records.">>, -1, <<"notlist">>)>>
              ELSE <<>>
      recs == IF ~ds.itemDataIsList THEN <<>> ELSE ds.itemData
      bad == {k \in 1..Len(recs) : Len(recs[k]) # Len(col_names)}
      F106[k \in 0..Len(recs)] ==
        IF k = 0 THEN <<>>
        ELSE IF k \in bad
        THEN Append(F106[k - 1],
               finding("DJ_106", "HIGH", <<oid, ".itemData">>,
                       <<"Record length does not match number of items.">>, k - 1, <<>>))
        ELSE F106[k - 1]
  IN IF Len(col_names) = 0
     THEN [df |-> EmptyFrame,
           f |-> concat_findings(f101 \o f102 \o
                   <<finding("DJ_104", "CRIT", <<oid, ".items">>,
                             <<"Could not derive any column names from 'items'.">>, -1, <<>>)>>)]
     ELSE [df |-> [cols |-> {col_names[k] : k \in 1..Len(col_names)},
                   rows |-> [k \in 1..Len(recs) |->
                               [c \in {col_names[j] : j \in 1..Len(col_names)} |->
                                  Fixed(recs[k], Len(col_names))[IndexOf(col_names, c)]]]],
           f |-> concat_findings(f101 \o f102 \o F106[Len(recs)])]

\* infer_itemgroup_oid_for_domain, for datasets named after their domain.
infer_itemgroup_oid_for_domain(doc, domain) ==
  IF domain \in DOMAIN get_itemgroup_map(doc) THEN domain ELSE "None"

domain_to_polars(doc, domain) ==
  LET oid == infer_itemgroup_oid_for_domain(doc, domain) IN
  IF oid = "None"
  THEN [df |-> EmptyFrame,
        f |-> finding("DJ_110", "CRIT", <<"domain">>,
                      <<"Could not infer itemGroup OID for domain ", domain>>, -1,
                      list_itemgroups(doc))]
  ELSE itemgroup_to_polars(doc, oid)

(***************************************************************************)
(* State: the tables handed to the validators, the last call and what it   *)
(* returned, and the position and partial results of a validation run.     *)
(***************************************************************************)
VARIABLES dm, vs, ae, cm, op, result, returned, doc, domains, pc, datasets,
          findings_parts, findings

vars == <<dm, vs, ae, cm, op, result, returned, doc, domains, pc, datasets, findings_parts, findings>>

NoCall == [fn |-> "none", dom |-> ""]

NoResult == [schema |-> <<>>, rows |-> <<>>, none |-> TRUE]

HasResult(t) == "none" \notin DOMAIN t

Idle == [run |-> "none", step |-> "idle", k |-> 0]

NoDoc == [attrs |-> {}, clinicalData |-> "absent", referenceData |-> "absent",
          itemGroupData |-> "absent", ig |-> <<>>]

RunIdle ==
  /\ doc = NoDoc /\ domains = <<>> /\ pc = Idle /\ datasets = <<>>
  /\ findings_parts = <<>> /\ findings = NoResult

CallIdle == op = NoCall /\ result = NoResult /\ returned = <<>>

inputs == <<dm, vs, ae, cm, doc, domains>>

run_state == <<pc, datasets, findings_parts, findings>>

(***************************************************************************)
(* Calls of one validator or check on the current tables                   *)
(***************************************************************************)
\* How often the same call is repeated on the same tables.
MaxRepeat == 2

\* The caller repeats one call on the same tables.
Repeating == [run |-> "repeat", step |-> "call", k |-> 0]

\* The caller makes the calls in any order, each once, on the same tables.
AnyOrder == [run |-> "any_order", step |-> "call", k |-> 0]

\* returned: for each call made so far, the values it returned, in order.
Calls == DOMAIN returned

\* By default one call is made on the tables of a behaviour.
MayCall(fn, dom) ==
  \/ pc = Idle /\ Calls = {}
  \/ /\ pc = Repeating
     /\ Calls \subseteq {<<fn, dom>>}
     /\ <<fn, dom>> \in Calls => Len(returned[<<fn, dom>>]) < MaxRepeat
  \/ pc = AnyOrder /\ <<fn, dom>> \notin Calls

Logged(fn, dom, value) ==
  [c \in Calls \cup {<<fn, dom>>} |->
     IF c \notin Calls THEN <<value>>
     ELSE IF c = <<fn, dom>> THEN Append(returned[c], value) ELSE returned[c]]

\* The frame a validator works on: the rows with an identifier, numbered.
Working(df) ==
  IF "USUBJID" \in df.cols
  THEN _ensure_row_index([df EXCEPT !.rows = SelectSeq(df.rows, LAMBDA r : r["USUBJID"] # Null)])
  ELSE _ensure_row_index(df)

\* A call that leaves its working frames in the tables it was given.
Returns_inplace(fn, dom, value) ==
  /\ MayCall(fn, dom)
  /\ op' = [fn |-> fn, dom |-> dom]
  /\ result' = value
  /\ returned' = Logged(fn, dom, value)
  /\ dm' = Working(dm) /\ vs' = Working(vs) /\ ae' = Working(ae) /\ cm' = Working(cm)
  /\ UNCHANGED <<doc, domains, run_state>>

\* A call returns its value and leaves every table as it was: the frames
\* are immutable and each with_columns / filter / join yields a new frame.
Returns(fn, dom, value) ==
  /\ MayCall(fn, dom)
  /\ op' = [fn |-> fn, dom |-> dom]
  /\ result' = value
  /\ returned' = Logged(fn, dom, value)
  /\ UNCHANGED <<inputs, run_state>>

CallValidateDM == Returns("validate_dm", "DM", validate_dm(dm))

CallSdtmValidateDM == Returns("sdtm_rules.validate_dm", "DM", sdtm_validate_dm(dm))

CallValidateVS == Returns("validate_vs", "VS", validate_vs(vs))

CallValidateAE == Returns("validate_ae", "AE", validate_ae(ae))

CallValidateCM == Returns("validate_cm", "CM", validate_cm(cm))

TableOf(dom) ==
  CASE dom = "DM" -> dm [] dom = "VS" -> vs [] dom = "AE" -> ae [] dom = "CM" -> cm

LinkDomains == {"VS", "AE", "CM"}

CallValidateDMLink ==
  \E dom \in LinkDomains :
    Returns("validate_dm_link", dom, validate_dm_link(dm, TableOf(dom), dom))

CallRvValidateDMLink ==
  \E dom \in LinkDomains :
    Returns("run_validator.validate_dm_link", dom, rv_validate_dm_link(dm, TableOf(dom), dom))

CallValidateVSAE ==
  /\ MayCall("validate_vs_ae", "CROSS")
  /\ \E value \in validate_vs_ae_results(vs, ae) : Returns("validate_vs_ae", "CROSS", value)

CallValidateVSCM ==
  /\ MayCall("validate_vs_cm", "CROSS")
  /\ \E value \in validate_vs_cm_results(vs, cm) : Returns("validate_vs_cm", "CROSS", value)

(***************************************************************************)
(* Input tables                                                            *)
(***************************************************************************)
Restrict(row, cols) == [c \in cols |-> row[c]]

Table(cols, rows) == [cols |-> cols, rows |-> [i \in 1..Len(rows) |-> Restrict(rows[i], cols)]]

Range(seq) == {seq[i] : i \in 1..Len(seq)}

TxtA == <<"A">>
TxtB == <<"B">>
TxtC == <<"C">>
TxtD == <<"D">>
TxtBlank == <<" ">>
TxtStudy == <<"S", "1">>
Date0 == <<"2", "0", "2", "3", "-", "1", "2", "-", "3", "1">>
Date1 == <<"2", "0", "2", "4", "-", "0", "1", "-", "0", "1">>
Date2 == <<"2", "0", "2", "4", "-", "0", "2", "-", "1", "5">>
Date3 == <<"2", "0", "2", "4", "-", "0", "3", "-", "0", "1">>
Date4 == <<"2", "0", "2", "4", "-", "0", "5", "-", "0", "1">>
DateSlash == <<"2", "0", "2", "4", "/", "0", "1", "/", "0", "1">>
DateNoDay == <<"2", "0", "2", "4", "-", "0", "2", "-", "3", "0">>

DM_COLUMNS == {"USUBJID", "STUDYID", "SEX", "AGE", "AGEU", "RFSTDTC", "RFENDTC"}
VS_COLUMNS == {"USUBJID", "VSTESTCD", "VSORRES", "VSDTC", "VSORRESU"}
AE_COLUMNS == {"USUBJID", "AETERM", "AESTDTC", "AEENDTC", "AESER", "AESEV"}
CM_COLUMNS == {"USUBJID", "CMTRT", "CMSTDTC", "CMENDTC"}

CleanDM == [USUBJID |-> TxtA, STUDYID |-> TxtStudy, SEX |-> <<"M">>, AGE |-> <<"#", "3", "0">>,
            AGEU |-> <<"Y", "E", "A", "R", "S">>, RFSTDTC |-> Date1, RFENDTC |-> Date3]
DirtyDM == [USUBJID |-> <<>>, STUDYID |-> Null, SEX |-> <<"X">>, AGE |-> <<"#", "2", "0", "0">>,
            AGEU |-> Null, RFSTDTC |-> Date3, RFENDTC |-> DateSlash]
CleanVS == [USUBJID |-> TxtA, VSTESTCD |-> <<"H", "R">>, VSORRES |-> <<"7", "2">>,
            VSDTC |-> Date2, VSORRESU |-> <<"b", "p", "m">>]
DirtyVS == [USUBJID |-> Null, VSTESTCD |-> <<"T", "E", "M", "P">>, VSORRES |-> <<"x">>,
            VSDTC |-> DateSlash, VSORRESU |-> <<"k", "g">>]
CleanAE == [USUBJID |-> TxtA, AETERM |-> <<"N", "a", "u", "s", "e", "a">>, AESTDTC |-> Date2, AEENDTC |-> Date3,
            AESER |-> <<"N">>, AESEV |-> <<"M", "I", "L", "D">>]
DirtyAE == [USUBJID |-> TxtD, AETERM |-> TxtBlank, AESTDTC |-> Date4, AEENDTC |-> Date1,
            AESER |-> <<"X">>, AESEV |-> <<"B", "A", "D">>]
CleanCM == [USUBJID |-> TxtA, CMTRT |-> <<"A", "s", "p", "i", "r", "i", "n">>, CMSTDTC |-> Date1, CMENDTC |-> Date3]
DirtyCM == [USUBJID |-> TxtD, CMTRT |-> Null, CMSTDTC |-> Date3, CMENDTC |-> Date1]

(***************************************************************************)
(* Column-presence specification: every table keeps or lacks each of its   *)
(* mandatory columns, the optional ones are all present or all absent,     *)
(* and the rows are clean or clean and dirty.                              *)
(***************************************************************************)
Required(dom) ==
  CASE dom = "DM" -> Range(DM_REQUIRED) [] dom = "VS" -> Range(VS_REQUIRED)
    [] dom = "AE" -> Range(AE_REQUIRED) [] dom = "CM" -> Range(CM_REQUIRED)

Columns(dom) ==
  CASE dom = "DM" -> DM_COLUMNS [] dom = "VS" -> VS_COLUMNS
    [] dom = "AE" -> AE_COLUMNS [] dom = "CM" -> CM_COLUMNS

GateRows(dom, dirty) ==
  CASE dom = "DM" -> IF dirty THEN <<CleanDM, DirtyDM>> ELSE <<CleanDM>>
    [] dom = "VS" -> IF dirty THEN <<CleanVS, DirtyVS>> ELSE <<CleanVS>>
    [] dom = "AE" -> IF dirty THEN <<CleanAE, DirtyAE>> ELSE <<CleanAE>>
    [] dom = "CM" -> IF dirty THEN <<CleanCM, DirtyCM>> ELSE <<CleanCM>>

GateTable(dom, drop, optional, dirty) ==
  Table((IF optional THEN Columns(dom) ELSE Required(dom)) \ drop, GateRows(dom, dirty))

InitGate ==
  /\ \E optional \in BOOLEAN, dirty \in BOOLEAN :
       /\ \E drop \in SUBSET Required("DM") : dm = GateTable("DM", drop, optional, dirty)
       /\ \E drop \in SUBSET Required("VS") : vs = GateTable("VS", drop, optional, dirty)
       /\ \E drop \in SUBSET Required("AE") : ae = GateTable("AE", drop, optional, dirty)
       /\ \E drop \in SUBSET Required("CM") : cm = GateTable("CM", drop, optional, dirty)
  /\ CallIdle /\ RunIdle

NextGate ==
  \/ CallValidateDM
  \/ CallSdtmValidateDM
  \/ CallValidateVS
  \/ CallValidateAE
  \/ CallValidateCM
  \/ CallValidateDMLink
  \/ CallRvValidateDMLink
  \/ CallValidateVSAE
  \/ CallValidateVSCM

SpecGate == InitGate /\ [][NextGate]_vars

(***************************************************************************)
(* Properties of the column gate                                           *)
(***************************************************************************)
DomainValidators ==
  {"validate_dm", "sdtm_rules.validate_dm", "validate_vs", "validate_ae", "validate_cm"}

RequiredSeq(dom) ==
  CASE dom = "DM" -> DM_REQUIRED [] dom = "VS" -> VS_REQUIRED
    [] dom = "AE" -> AE_REQUIRED [] dom = "CM" -> CM_REQUIRED

LacksMandatory(dom) == Len(MissingColumns(TableOf(dom), RequiredSeq(dom))) > 0

OneDatasetLevelCrit(t) ==
  /\ ~IsRaised(t)
  /\ Len(t.rows) = 1
  /\ t.rows[1].severity = "CRIT"
  /\ t.rows[1].row_index = -1

\* C1: every per-domain validator, called on a table that lacks a mandatory
\* column, returns exactly one finding, CRIT, row_index -1, whose field lists
\* exactly the missing columns; no other rule contributes a row.
C1_GateEveryValidator ==
  (op.fn \in DomainValidators /\ LacksMandatory(op.dom))
    => /\ OneDatasetLevelCrit(result)
       /\ result.rows[1].field = MissingColumns(TableOf(op.dom), RequiredSeq(op.dom))

\* C10: a cross-domain check called with a table that lacks a column it needs
\* returns exactly one finding: row_index -1, CRIT, CROSS_DOMAIN; no orphan
\* and no temporal finding is emitted besides it.
LinkCalls == {"validate_dm_link", "run_validator.validate_dm_link"}

CrossLacksColumn ==
  \/ op.fn \in LinkCalls /\ ("USUBJID" \notin dm.cols \/ "USUBJID" \notin TableOf(op.dom).cols)
  \/ op.fn = "validate_vs_ae" /\ (~({"USUBJID", "VSDTC"} \subseteq vs.cols)
                                   \/ ~({"USUBJID", "AESTDTC"} \subseteq ae.cols))
  \/ op.fn = "validate_vs_cm" /\ (~({"USUBJID", "VSDTC"} \subseteq vs.cols)
                                   \/ ~({"USUBJID", "CMSTDTC"} \subseteq cm.cols))

C10_CrossCheckDegrades ==
  CrossLacksColumn
    => /\ OneDatasetLevelCrit(result)
       /\ result.rows[1].finding_type = "CROSS_DOMAIN"

\* A link check whose anchor lacks USUBJID while the dependent table holds a
\* subject the anchor could not contain, and a temporal check whose
\* dependent table lacks its date column.
C10_Witness ==
  \/ /\ op.fn \in LinkCalls /\ op.dom = "AE"
     /\ "USUBJID" \notin dm.cols /\ "USUBJID" \in ae.cols /\ Len(ae.rows) = 2
     /\ OneDatasetLevelCrit(result)
  \/ /\ op.fn = "validate_vs_cm"
     /\ {"USUBJID", "VSDTC"} \subseteq vs.cols /\ "CMSTDTC" \notin cm.cols /\ Len(cm.rows) = 2
     /\ OneDatasetLevelCrit(result)

\* <<call, optional column, rule that is not evaluated without the column>>
SkippableRules ==
  { <<"validate_vs", "VSORRESU", "SDTM_VS_005">>,
    <<"validate_ae", "AEENDTC", "SDTM_AE_003">>,
    <<"validate_ae", "AEENDTC", "SDTM_AE_004">>,
    <<"validate_ae", "AESER", "SDTM_AE_005">>,
    <<"validate_ae", "AESEV", "SDTM_AE_006">>,
    <<"validate_cm", "CMENDTC", "SDTM_CM_003">>,
    <<"validate_cm", "CMENDTC", "SDTM_CM_004">>,
    <<"validate_dm", "SEX", "SDTM_DM_003">>,
    <<"validate_dm", "AGE", "SDTM_DM_004">>,
    <<"validate_dm", "AGE", "SDTM_DM_005">>,
    <<"validate_dm", "AGEU", "SDTM_DM_005">>,
    <<"validate_dm", "RFSTDTC", "SDTM_DM_006">>,
    <<"validate_dm", "RFENDTC", "SDTM_DM_007">>,
    <<"validate_dm", "RFSTDTC", "SDTM_DM_008">>,
    <<"validate_dm", "RFENDTC", "SDTM_DM_008">>,
    <<"validate_vs_cm", "CMENDTC", "X_VSCM_002">> }

\* The call got past its mandatory-column gate and its table lacks column c.
SkipsFor(fn, c) ==
  /\ op.fn = fn
  /\ IF fn = "validate_vs_cm"
     THEN ~CrossLacksColumn /\ c \notin cm.cols
     ELSE ~LacksMandatory(op.dom) /\ c \notin TableOf(op.dom).cols

HasAdvisory(t, rule) ==
  \E k \in 1..Len(t.rows) :
    t.rows[k].rule_id = rule /\ t.rows[k].severity = "LOW" /\ t.rows[k].row_index = -1

\* C11: whenever a validator or check does not evaluate a rule because an
\* optional column is absent, its result contains a LOW dataset-level
\* advisory (row_index -1) for that rule.
C11_NoSilentSkips ==
  \A x \in SkippableRules :
    SkipsFor(x[1], x[2]) => (~IsRaised(result) /\ HasAdvisory(result, x[3]))

Taxonomy(t) ==
  \A k \in 1..Len(t.rows) :
    LET f == t.rows[k] IN
    /\ f.severity = "CRIT" => f.row_index = -1
    /\ f.severity \in {"HIGH", "MED"} => f.row_index >= 0
    /\ f.row_index = -1 => f.severity \in {"CRIT", "LOW"}

\* C12: in every Findings table a validator or check returns, a CRIT finding
\* has row_index -1, a HIGH or MED finding has row_index >= 0, and a finding
\* with row_index -1 is CRIT or LOW.
C12_Taxonomy ==
  op.fn # "none" => (~IsRaised(result) /\ Taxonomy(result))

MissingIdRows(t) ==
  {k \in 1..Len(t.rows) : t.rows[k].row_index = -1 /\ t.rows[k].field = <<"USUBJID">>}

\* C19: sdtm_rules.validate_dm on a table without a USUBJID column emits
\* exactly one dataset-level finding for the missing identifier: rule
\* SDTM_DM_001, HIGH, field USUBJID, row_index -1, message "Missing required
\* column USUBJID."; when the other columns are clean it is the only row.
C19_SdtmMissingId ==
  (op.fn = "sdtm_rules.validate_dm" /\ "USUBJID" \notin dm.cols)
    => /\ ~IsRaised(result)
       /\ Cardinality(MissingIdRows(result)) = 1
       /\ \A k \in MissingIdRows(result) :
            /\ result.rows[k].rule_id = "SDTM_DM_001"
            /\ result.rows[k].severity = "HIGH"
            /\ result.rows[k].message = <<"Missing required column USUBJID.">>
       /\ \A k \in 1..Len(result.rows) : result.rows[k].rule_id # "SDTM_DM_002"
       /\ (\A i \in 1..Len(dm.rows) : dm.rows[i] = Restrict(CleanDM, dm.cols))
            => Len(result.rows) = 1

\* A one-row clean DM table with STUDYID and the optional columns, no USUBJID.
C19_Witness ==
  /\ op.fn = "sdtm_rules.validate_dm"
  /\ dm.cols = DM_COLUMNS \ {"USUBJID"}
  /\ Len(dm.rows) = 1
  /\ Len(result.rows) = 1
  /\ result.rows[1].rule_id = "SDTM_DM_001"
  /\ result.rows[1].row_index = -1

\* The columns the validators and checks derive for their own use.
DerivedColumns ==
  {"row_index", "USUBJID_S", "STUDYID_S", "SEX_S", "AGE_N", "IS_DUP", "VSTESTCD_S",
   "VSORRES_S", "VSORRESU_S", "VSDTC_D", "AETERM_S", "AESTDTC_D", "AEENDTC_D",
   "CMTRT_S", "CMSTDTC_D", "CMENDTC_D", "VS_MIN", "VS_MAX", "CM_MIN", "CM_MAX"}

Tables == <<dm, vs, ae, cm>>

MaxDmRows == 5

DmIds == {Null, <<>>, TxtBlank, TxtA, TxtB}

CleanTable(dom) == GateTable(dom, {}, TRUE, FALSE)

DmOfIds(ids) ==
  Table({"USUBJID", "STUDYID"}, [i \in 1..Len(ids) |-> [USUBJID |-> ids[i], STUDYID |-> TxtStudy]])

OthersClean == vs = CleanTable("VS") /\ ae = CleanTable("AE") /\ cm = CleanTable("CM")

InitDM ==
  /\ \E n \in 0..MaxDmRows : \E ids \in [1..n -> DmIds] : dm = DmOfIds(ids)
  /\ OthersClean
  /\ CallIdle /\ RunIdle

NextDM ==
  \/ CallValidateDM
  \/ CallSdtmValidateDM

SpecDM == InitDM /\ [][NextDM]_vars

Id(i) == dm.rows[i]["USUBJID"]

\* The row indexes a result's uniqueness findings carry.
UniquenessRows(t) == {t.rows[k].row_index : k \in {j \in 1..Len(t.rows) : t.rows[j].rule_id = "SDTM_DM_002"}}

UniquenessCount(t) == Cardinality({j \in 1..Len(t.rows) : t.rows[j].rule_id = "SDTM_DM_002"})

UniquenessAllHigh(t) ==
  \A j \in 1..Len(t.rows) : t.rows[j].rule_id = "SDTM_DM_002" => t.rows[j].severity = "HIGH"

NonNullDuplicates == {i - 1 : i \in {k \in 1..Len(dm.rows) :
                        ~IsNull(Id(k)) /\ \E j \in 1..Len(dm.rows) : j # k /\ Id(j) = Id(k)}}

NonBlank(v) == ~IsNull(v) /\ \E k \in 1..Len(v) : ~IsSpace(v[k])

NonBlankDuplicates == {i - 1 : i \in {k \in 1..Len(dm.rows) :
                        NonBlank(Id(k)) /\ \E j \in 1..Len(dm.rows) : j # k /\ Id(j) = Id(k)}}

IdsAre(ids) == Len(dm.rows) = Len(ids) /\ \A i \in 1..Len(ids) : Id(i) = ids[i]

DmCalls == {"validate_dm", "sdtm_rules.validate_dm"}

LaterDuplicates == {i - 1 : i \in {k \in 1..Len(dm.rows) :
                      ~IsNull(Id(k)) /\ \E j \in 1..Len(dm.rows) : j < k /\ Id(j) = Id(k)}}

FirstOccurrences == {i - 1 : i \in {k \in 1..Len(dm.rows) :
                       ~IsNull(Id(k)) /\ ~\E j \in 1..Len(dm.rows) : j < k /\ Id(j) = Id(k)}}

MaxAnchorRows == 3

MaxDepRows == 2

AnchorIds == {Null, TxtA, TxtB, TxtC}

DepIds == {Null, TxtA, TxtD, <<" ", "A">>}

WithIds(dom, ids) ==
  Table(Columns(dom), [i \in 1..Len(ids) |-> [GateRows(dom, FALSE)[1] EXCEPT !["USUBJID"] = ids[i]]])

InitLink ==
  /\ \E n \in 0..MaxAnchorRows : \E ids \in [1..n -> AnchorIds] : dm = DmOfIds(ids)
  /\ \E n \in 0..MaxDepRows : \E ids \in [1..n -> DepIds] :
        vs = WithIds("VS", ids) /\ ae = WithIds("AE", ids) /\ cm = WithIds("CM", ids)
  /\ CallIdle /\ RunIdle

NextLink ==
  \/ CallValidateDMLink
  \/ CallRvValidateDMLink

SpecLink == InitLink /\ [][NextLink]_vars

\* The identifiers of the anchor table; a row without an identifier (null)
\* contributes none.
DmIdentifiers == {Id(i) : i \in 1..Len(dm.rows)} \ {Null}

DepId(i) == TableOf(op.dom).rows[i]["USUBJID"]

OrphanPositions == {i - 1 : i \in {k \in 1..Len(TableOf(op.dom).rows) : DepId(k) \notin DmIdentifiers}}

IsOrphanFinding(f, i) ==
  /\ f.finding_type = "CROSS_DOMAIN"
  /\ f.severity = "HIGH"
  /\ f.row_index = i - 1
  /\ f.evidence = DepId(i)
  /\ f.usubjid = DepId(i)

\* C3: when both tables have USUBJID, validate_dm_link returns exactly one
\* CROSS_DOMAIN HIGH finding per dependent row whose identifier is not among
\* the DM identifiers and none for the other rows; its row_index is the row's
\* position, its evidence and usubjid the orphan identifier; anchor {A,B,C}
\* with dependent ids {A,D} gives one finding, evidence D.
C3_OrphanCheck ==
  (op.fn \in LinkCalls /\ "USUBJID" \in dm.cols /\ "USUBJID" \in TableOf(op.dom).cols)
    => /\ ~IsRaised(result)
       /\ Len(result.rows) = Cardinality(OrphanPositions)
       /\ \A p \in OrphanPositions :
             \E k \in 1..Len(result.rows) : IsOrphanFinding(result.rows[k], p + 1)
       /\ \A k \in 1..Len(result.rows) : (result.rows[k].row_index) \in OrphanPositions
       /\ (IdsAre(<<TxtA, TxtB, TxtC>>) /\ Len(TableOf(op.dom).rows) = 2
            /\ DepId(1) = TxtA /\ DepId(2) = TxtD)
           => (Len(result.rows) = 1 /\ result.rows[1].evidence = TxtD)

C3_Witness ==
  /\ op.fn = "run_validator.validate_dm_link"
  /\ IdsAre(<<TxtA, TxtB, TxtC>>)
  /\ Len(TableOf(op.dom).rows) = 2 /\ DepId(1) = TxtA /\ DepId(2) = TxtD
  /\ Len(result.rows) = 1 /\ result.rows[1].evidence = TxtD /\ result.rows[1].row_index = 1

(***************************************************************************)
(* Temporal containment specification: an anchor table and a dependent     *)
(* table, each a selection of rows of a fixed list (order kept)            *)
(***************************************************************************)
Pick(list, S) ==
  LET F[i \in 0..Len(list)] ==
        IF i = 0 THEN <<>> ELSE IF i \in S THEN Append(F[i - 1], list[i]) ELSE F[i - 1]
  IN F[Len(list)]

Selections(list) == {Pick(list, S) : S \in SUBSET (1..Len(list))}

\* <<subject, date>> rows; the anchor list is not in date order.
VsAnchorRows == << <<TxtA, Date3>>, <<TxtA, DateSlash>>, <<TxtA, Date1>>, <<TxtB, Date2>>, <<Null, Date1>> >>

DependentRows ==
  << <<TxtA, Date0>>, <<TxtA, Date1>>, <<TxtA, Date2>>, <<TxtA, Date3>>, <<TxtA, Date4>>,
     <<TxtA, DateSlash>>, <<TxtB, Date4>>, <<Null, Date4>> >>

\* <<subject, start, end>> rows of CM.
CmAnchorRows ==
  << <<TxtA, Date3, Date1>>, <<TxtA, DateSlash, Date4>>, <<TxtA, Date1, Null>>,
     <<TxtA, Date1, Date3>>, <<TxtB, Date2, Date2>>, <<Null, Date1, Date3>> >>

VsOf(rows) ==
  Table(VS_COLUMNS, [i \in 1..Len(rows) |->
          [CleanVS EXCEPT !["USUBJID"] = rows[i][1], !["VSDTC"] = rows[i][2]]])

AeOf(rows) ==
  Table(AE_COLUMNS, [i \in 1..Len(rows) |->
          [CleanAE EXCEPT !["USUBJID"] = rows[i][1], !["AESTDTC"] = rows[i][2]]])

CmOf(rows, with_end) ==
  Table(IF with_end THEN CM_COLUMNS ELSE CM_COLUMNS \ {"CMENDTC"}, [i \in 1..Len(rows) |->
          [CleanCM EXCEPT !["USUBJID"] = rows[i][1], !["CMSTDTC"] = rows[i][2], !["CMENDTC"] = rows[i][3]]])

InitVsAe ==
  /\ \E rows \in Selections(VsAnchorRows) : vs = VsOf(rows)
  /\ \E rows \in Selections(DependentRows) : ae = AeOf(rows)
  /\ cm = CleanTable("CM")

InitVsCm ==
  /\ \E rows \in Selections(CmAnchorRows), with_end \in BOOLEAN : cm = CmOf(rows, with_end)
  /\ \E rows \in Selections(DependentRows) : vs = VsOf(rows)
  /\ ae = CleanTable("AE")

InitTemporal ==
  /\ InitVsAe \/ InitVsCm
  /\ dm = CleanTable("DM")
  /\ CallIdle /\ RunIdle

NextTemporal ==
  \/ CallValidateVSAE
  \/ CallValidateVSCM

SpecTemporal == InitTemporal /\ [][NextTemporal]_vars

TemporalRules == {"X_VSAE_002", "X_VSCM_002"}

TemporalIndexes(t) == {j \in 1..Len(t.rows) : t.rows[j].rule_id \in TemporalRules}

TemporalRows(t) == {t.rows[j].row_index : j \in TemporalIndexes(t)}

Parsed(df, c, subj, keep(_)) ==
  {_parse_iso_date(df.rows[i][c]) : i \in {j \in 1..Len(df.rows) :
       df.rows[j]["USUBJID"] = subj /\ keep(df.rows[j])}} \ {NullDate}

Before(d, S) == \A a \in S : d < a

After(d, S) == \A a \in S : d > a

\* Positions of the dependent rows with a subject and a parseable date that
\* lies outside [min lows, max highs], both sets non-empty.
Outside(dep, c, lows(_), highs(_)) ==
  {i - 1 : i \in {j \in 1..Len(dep.rows) :
      LET subj == dep.rows[j]["USUBJID"]
          d == _parse_iso_date(dep.rows[j][c])
      IN /\ ~IsNull(subj) /\ d # NullDate
         /\ lows(subj) # {} /\ highs(subj) # {}
         /\ (Before(d, lows(subj)) \/ After(d, highs(subj)))}}

VsDates(subj) == Parsed(vs, "VSDTC", subj, LAMBDA r : TRUE)

CmStarts(subj) == Parsed(cm, "CMSTDTC", subj, LAMBDA r : TRUE)

\* The parsed end dates of the rows whose start date parses.
CmEnds(subj) ==
  IF "CMENDTC" \in cm.cols
  THEN Parsed(cm, "CMENDTC", subj, LAMBDA r : _parse_iso_date(r["CMSTDTC"]) # NullDate)
  ELSE {}

\* Every parsed date of the CM rows of a subject.
CmDates(subj) ==
  CmStarts(subj) \cup (IF "CMENDTC" \in cm.cols THEN Parsed(cm, "CMENDTC", subj, LAMBDA r : TRUE) ELSE {})

TemporalFindingsAre(t, positions) ==
  /\ ~IsRaised(t)
  /\ TemporalRows(t) = positions
  /\ Cardinality(TemporalIndexes(t)) = Cardinality(positions)
  /\ \A j \in TemporalIndexes(t) : t.rows[j].finding_type = "CROSS_DOMAIN"

\* C4 as stated: per subject the range is [min, max] over the anchor table's
\* parsed dates; a dependent row with a parseable date yields exactly one
\* CROSS_DOMAIN temporal finding iff its date is strictly outside that range;
\* a subject without a parseable anchor date yields none.
C4_ContainmentAsStated ==
  /\ op.fn = "validate_vs_ae" => TemporalFindingsAre(result, Outside(ae, "AESTDTC", VsDates, VsDates))
  /\ op.fn = "validate_vs_cm" => TemporalFindingsAre(result, Outside(vs, "VSDTC", CmDates, CmDates))

\* C4 amended: validate_vs_ae as stated, the range taken over the parsed
\* VSDTC of the subject; validate_vs_cm with the window [min parsed CMSTDTC,
\* max parsed CMENDTC] over the subject's CM rows whose CMSTDTC parses, a
\* window that exists only if CM has a CMENDTC column and one of those rows
\* has a parseable CMENDTC.
C4_Containment ==
  /\ op.fn = "validate_vs_ae" => TemporalFindingsAre(result, Outside(ae, "AESTDTC", VsDates, VsDates))
  /\ op.fn = "validate_vs_cm" => TemporalFindingsAre(result, Outside(vs, "VSDTC", CmStarts, CmEnds))

\* Anchor range [2024-01-01, 2024-03-01] for subject A with an unparseable
\* anchor date besides; dependent dates 2024-02-15 (inside), 2024-03-01
\* (the maximum) and 2024-05-01 (after): one finding, on the last.
C4_Witness ==
  /\ op.fn = "validate_vs_ae"
  /\ vs = VsOf(<< <<TxtA, Date3>>, <<TxtA, DateSlash>>, <<TxtA, Date1>> >>)
  /\ ae = AeOf(<< <<TxtA, Date2>>, <<TxtA, Date3>>, <<TxtA, Date4>> >>)
  /\ TemporalRows(result) = {2}
  /\ Len(result.rows) = 1

(***************************************************************************)
(* Interval specification: AE, CM and DM tables whose rows carry the same  *)
(* <<start, end>> pairs, with or without the end column                    *)
(***************************************************************************)
MaxIntervalRows == 2

IntervalTexts == {Date1, Date3, DateSlash, DateNoDay, Null}

InitInterval ==
  /\ \E n \in 0..MaxIntervalRows, with_end \in BOOLEAN :
       \E rows \in [1..n -> IntervalTexts \X IntervalTexts] :
         /\ ae = Table(IF with_end THEN AE_COLUMNS ELSE AE_COLUMNS \ {"AEENDTC"},
                       [i \in 1..n |-> [CleanAE EXCEPT !["AESTDTC"] = rows[i][1], !["AEENDTC"] = rows[i][2]]])
         /\ cm = CmOf([i \in 1..n |-> <<TxtA, rows[i][1], rows[i][2]>>], with_end)
         /\ dm = Table(IF with_end THEN DM_COLUMNS ELSE DM_COLUMNS \ {"RFENDTC"},
                       [i \in 1..n |-> [CleanDM EXCEPT !["RFSTDTC"] = rows[i][1], !["RFENDTC"] = rows[i][2]]])
  /\ vs = CleanTable("VS")
  /\ CallIdle /\ RunIdle

NextInterval ==
  \/ CallValidateAE
  \/ CallValidateCM
  \/ CallValidateDM

SpecInterval == InitInterval /\ [][NextInterval]_vars

IntervalRule(dom) ==
  CASE dom = "AE" -> "SDTM_AE_004" [] dom = "CM" -> "SDTM_CM_004" [] dom = "DM" -> "SDTM_DM_008"

StartColumn(dom) ==
  CASE dom = "AE" -> "AESTDTC" [] dom = "CM" -> "CMSTDTC" [] dom = "DM" -> "RFSTDTC"

EndColumn(dom) ==
  CASE dom = "AE" -> "AEENDTC" [] dom = "CM" -> "CMENDTC" [] dom = "DM" -> "RFENDTC"

\* The calendar dates among the texts used, in date order.
CalendarDates == <<Date0, Date1, Date2, Date3, Date4>>

IsCalendarDate(v) == \E k \in 1..Len(CalendarDates) : CalendarDates[k] = v

Later(a, b) == \E j, k \in 1..Len(CalendarDates) : CalendarDates[j] = a /\ CalendarDates[k] = b /\ j > k

RuleFindingsAt(t, rule, i) == {k \in 1..Len(t.rows) : t.rows[k].rule_id = rule /\ t.rows[k].row_index = i - 1}

StartAfterEnd(dom, i) ==
  LET df == TableOf(dom) IN
  /\ StartColumn(dom) \in df.cols /\ EndColumn(dom) \in df.cols
  /\ IsCalendarDate(df.rows[i][StartColumn(dom)])
  /\ IsCalendarDate(df.rows[i][EndColumn(dom)])
  /\ Later(df.rows[i][StartColumn(dom)], df.rows[i][EndColumn(dom)])

IntervalCalls == {"validate_ae", "validate_cm", "validate_dm"}

\* C5: the interval rule of AE, CM and DM gives a row exactly one HIGH finding
\* if and only if its start and end are both present and parseable and the
\* start is strictly after the end; equal dates, and a null or unparseable
\* date on either side, give none.
C5_IntervalOrdering ==
  op.fn \in IntervalCalls
    => /\ ~IsRaised(result)
       /\ \A i \in 1..Len(TableOf(op.dom).rows) :
             LET hits == RuleFindingsAt(result, IntervalRule(op.dom), i) IN
             /\ Cardinality(hits) = (IF StartAfterEnd(op.dom, i) THEN 1 ELSE 0)
             /\ \A k \in hits : result.rows[k].severity = "HIGH"
       /\ \A k \in 1..Len(result.rows) :
             result.rows[k].rule_id = IntervalRule(op.dom)
               => (result.rows[k].row_index + 1) \in 1..Len(TableOf(op.dom).rows)

\* Two AE rows: start after end, then start equal to end.
C5_Witness ==
  /\ op.fn = "validate_ae"
  /\ Len(ae.rows) = 2 /\ "AEENDTC" \in ae.cols
  /\ ae.rows[1]["AESTDTC"] = Date3 /\ ae.rows[1]["AEENDTC"] = Date1
  /\ ae.rows[2]["AESTDTC"] = Date3 /\ ae.rows[2]["AEENDTC"] = Date3
  /\ Cardinality(RuleFindingsAt(result, "SDTM_AE_004", 1)) = 1
  /\ Cardinality(RuleFindingsAt(result, "SDTM_AE_004", 2)) = 0

(***************************************************************************)
(* Format specification: rows whose date columns all carry one text and    *)
(* whose VS result and test code vary                                      *)
(***************************************************************************)
MaxFormatRows == 2

FormatDates == {Date1, DateSlash, DateNoDay, <<>>, Null}

TxtHR == <<"H", "R">>

\* <<VSORRES, VSTESTCD>>
FormatResults ==
  { <<<<"7", "2">>, TxtHR>>, <<<<"7", ",", "2">>, TxtHR>>, <<<<"x">>, TxtHR>>,
    <<Null, TxtHR>>, <<<<"x">>, <<"X", "X">>>> }

InitFormat ==
  /\ \E n \in 0..MaxFormatRows :
       \E d \in [1..n -> FormatDates], r \in [1..n -> FormatResults] :
         /\ vs = Table(VS_COLUMNS, [i \in 1..n |->
                   [CleanVS EXCEPT !["VSDTC"] = d[i], !["VSORRES"] = r[i][1], !["VSTESTCD"] = r[i][2]]])
         /\ ae = Table(AE_COLUMNS, [i \in 1..n |->
                   [CleanAE EXCEPT !["AESTDTC"] = d[i], !["AEENDTC"] = d[i]]])
         /\ cm = CmOf([i \in 1..n |-> <<TxtA, d[i], d[i]>>], TRUE)
         /\ dm = Table(DM_COLUMNS, [i \in 1..n |->
                   [CleanDM EXCEPT !["RFSTDTC"] = d[i], !["RFENDTC"] = d[i]]])
  /\ CallIdle /\ RunIdle

NextFormat ==
  \/ CallValidateVS
  \/ CallValidateAE
  \/ CallValidateCM
  \/ CallValidateDM
  \/ CallSdtmValidateDM

SpecFormat == InitFormat /\ [][NextFormat]_vars

\* <<call, rule, column>> of every date-format rule.
DateFormatRules ==
  { <<"validate_vs", "SDTM_VS_003", "VSDTC">>,
    <<"validate_ae", "SDTM_AE_002", "AESTDTC">>,
    <<"validate_ae", "SDTM_AE_003", "AEENDTC">>,
    <<"validate_cm", "SDTM_CM_002", "CMSTDTC">>,
    <<"validate_cm", "SDTM_CM_003", "CMENDTC">>,
    <<"validate_dm", "SDTM_DM_006", "RFSTDTC">>,
    <<"validate_dm", "SDTM_DM_007", "RFENDTC">>,
    <<"sdtm_rules.validate_dm", "SDTM_DM_006", "RFSTDTC">> }

\* The texts used that are decimals once a comma is read as the point.
DecimalTexts == { <<"7", "2">>, <<"7", ",", "2">> }

\* A null value gives no finding of the rule on its row, a present value
\* that is not acceptable gives exactly one.
PolicyAt(t, rule, i, value, acceptable) ==
  /\ IsNull(value) => RuleFindingsAt(t, rule, i) = {}
  /\ (~IsNull(value) /\ ~acceptable) => Cardinality(RuleFindingsAt(t, rule, i)) = 1

FormatPolicy(rules) ==
  /\ \A x \in rules :
       op.fn = x[1]
         => /\ ~IsRaised(result)
            /\ \A i \in 1..Len(TableOf(op.dom).rows) :
                  LET value == TableOf(op.dom).rows[i][x[3]]
                  IN PolicyAt(result, x[2], i, value, IsCalendarDate(value))
  /\ op.fn = "validate_vs"
       => \A i \in 1..Len(vs.rows) :
            vs.rows[i]["VSTESTCD"] \in VS_ALLOWED_TESTCD
              => PolicyAt(result, "SDTM_VS_004", i, vs.rows[i]["VSORRES"],
                          vs.rows[i]["VSORRES"] \in DecimalTexts)

\* C6: for every date-format rule and the VS numeric-result rule a null
\* value never produces a finding, and a present value that does not parse
\* (as a calendar date YYYY-MM-DD, resp. as a decimal after comma
\* normalisation for a known test code) produces exactly one finding for
\* that row and rule.
C6_NullVsUnparseable == FormatPolicy(DateFormatRules)

(***************************************************************************)
(* Join specification: anchor and dependent identifiers that differ by     *)
(* surrounding whitespace, letter case or source type; every dependent     *)
(* date lies outside the range or window of the anchor dates               *)
(***************************************************************************)
MaxJoinRows == 2

JoinAnchorIds == {TxtA, <<" ", "A">>, <<"#", "7">>, Null}

JoinDepIds == {TxtA, <<"a">>, <<"A", " ">>, <<"7">>, Null}

InitJoin ==
  /\ \E n \in 0..MaxJoinRows, k \in 0..MaxJoinRows :
       \E xs \in [1..n -> JoinAnchorIds], ys \in [1..k -> JoinDepIds] :
         /\ dm = DmOfIds(xs)
         /\ vs = VsOf([i \in 1..n |-> <<xs[i], Date2>>])
         /\ ae = AeOf([i \in 1..k |-> <<ys[i], Date4>>])
         /\ cm = CmOf([i \in 1..k |-> <<ys[i], Date3, Date4>>], TRUE)
  /\ CallIdle /\ RunIdle

NextJoin ==
  \/ CallValidateDMLink
  \/ CallRvValidateDMLink
  \/ CallValidateVSAE
  \/ CallValidateVSCM

SpecJoin == InitJoin /\ [][NextJoin]_vars

\* The string forms of two identifiers are exactly equal.
SameString(a, b) == ~IsNull(a) /\ ~IsNull(b) /\ CastUtf8(a) = CastUtf8(b)

\* Row i of table left has a row of table right with the same identifier.
Matched(left, i, right) ==
  \E j \in 1..Len(right.rows) : SameString(left.rows[i]["USUBJID"], right.rows[j]["USUBJID"])

\* Rule rule reports every row of table left that has no match in table
\* right as an orphan, and no other row.
OrphansExactly(t, rule, left, right) ==
  \A i \in 1..Len(left.rows) :
    Cardinality(RuleFindingsAt(t, rule, i)) = (IF Matched(left, i, right) THEN 0 ELSE 1)

\* Rule rule gives a row of table left a temporal finding only if the row
\* has a match in table right.
RangeOnlyIfMatched(t, rule, left, right) ==
  \A i \in 1..Len(left.rows) :
    RuleFindingsAt(t, rule, i) # {} => Matched(left, i, right)

\* C13: validate_dm_link, validate_vs_ae and validate_vs_cm match two rows
\* only when the string forms of their USUBJID are exactly equal: a row whose
\* identifier differs from every anchor identifier, be it only by surrounding
\* whitespace or letter case, is reported as an orphan and gets no temporal
\* finding; a row with an exactly equal anchor identifier is no orphan.
C13_ExactJoin ==
  /\ op.fn \in LinkCalls
       => /\ ~IsRaised(result)
          /\ OrphansExactly(result, "X_DMLINK_" \o op.dom \o "_001", TableOf(op.dom), dm)
  /\ op.fn = "validate_vs_ae"
       => /\ ~IsRaised(result)
          /\ OrphansExactly(result, "X_VSAE_001", ae, vs)
          /\ RangeOnlyIfMatched(result, "X_VSAE_002", ae, vs)
  /\ op.fn = "validate_vs_cm"
       => /\ ~IsRaised(result)
          /\ OrphansExactly(result, "X_VSCM_001", cm, vs)
          /\ RangeOnlyIfMatched(result, "X_VSCM_002", vs, cm)

\* VS subjects "A" and " A"; AE subjects "a" and "A": the first AE row is an
\* orphan without a temporal finding, the second is matched and out of range.
C13_Witness ==
  /\ op.fn = "validate_vs_ae"
  /\ Len(vs.rows) = 2 /\ vs.rows[1]["USUBJID"] = TxtA /\ vs.rows[2]["USUBJID"] = <<" ", "A">>
  /\ Len(ae.rows) = 2 /\ ae.rows[1]["USUBJID"] = <<"a">> /\ ae.rows[2]["USUBJID"] = TxtA
  /\ Cardinality(RuleFindingsAt(result, "X_VSAE_001", 1)) = 1
  /\ RuleFindingsAt(result, "X_VSAE_002", 1) = {}
  /\ RuleFindingsAt(result, "X_VSAE_001", 2) = {}
  /\ Cardinality(RuleFindingsAt(result, "X_VSAE_002", 2)) = 1

(***************************************************************************)
(* Rule specification: one table of up to MaxRuleRows rows, each a clean   *)
(* row with one field changed (or the dirty row), with or without the      *)
(* optional columns; the other tables are clean                            *)
(***************************************************************************)
MaxRuleRows == 2

\* AGE cells and the number each stands for, in tenths.
AgeTable ==
  { << <<"#", "3", "0">>, 300 >>, << <<"#", "0">>, 0 >>, << <<"#", "1", "2", "0">>, 1200 >>,
    << <<"#", "1", "2", "1">>, 1210 >>, << <<"#", "2", "0", "0">>, 2000 >>,
    << <<"-", "1">>, -10 >>, << <<"1", "2", "0", ".", "5">>, 1205 >> }

\* <<field, value>>: the changes made to the clean row of a domain.
RuleChanges(dom) ==
  CASE dom = "DM" ->
         ({"USUBJID"} \X {Null, <<>>, TxtBlank, TxtB})
         \cup ({"STUDYID"} \X {Null, TxtBlank})
         \cup ({"SEX"} \X {Null, <<"X">>, <<"m">>})
         \cup ({"AGE"} \X {Null, <<"a", "b", "c">>, <<"#", "0">>, <<"#", "1", "2", "0">>,
                           <<"#", "1", "2", "1">>, <<"-", "1">>, <<"1", "2", "0", ".", "5">>})
         \cup ({"AGEU"} \X {Null, <<"X">>})
         \cup ({"RFSTDTC"} \X {DateSlash})
         \cup ({"RFENDTC"} \X {Date0})
    [] dom = "VS" ->
         ({"USUBJID"} \X {Null, <<>>, TxtBlank})
         \cup ({"VSTESTCD"} \X {Null, <<"X", "X">>, <<"h", "r">>, <<"T", "E", "M", "P">>})
         \cup ({"VSORRES"} \X {Null, <<"x">>, <<"7", ",", "2">>})
         \cup ({"VSORRESU"} \X {Null, <<"k", "g">>, <<"B", "P", "M">>})
    [] dom = "AE" ->
         ({"AETERM"} \X {Null, <<>>, TxtBlank})
         \cup ({"AESER"} \X {Null, <<"X">>, <<"y">>})
         \cup ({"AESEV"} \X {Null, <<"B", "A", "D">>, <<"m", "i", "l", "d">>})
         \cup ({"AESTDTC"} \X {DateSlash, Date4})
    [] dom = "CM" ->
         ({"CMTRT"} \X {Null, <<>>, TxtBlank})
         \cup ({"CMSTDTC"} \X {DateSlash, Date4})
         \cup ({"CMENDTC"} \X {Null, DateSlash})

\* Rows with two fields changed: a unit with an unknown or a null test code,
\* an AGEU with an AGE that is no number.
RulePairs(dom) ==
  CASE dom = "DM" -> {[CleanDM EXCEPT !["AGE"] = Null, !["AGEU"] = <<"X">>],
                      [CleanDM EXCEPT !["AGE"] = <<"a", "b", "c">>, !["AGEU"] = Null]}
    [] dom = "VS" -> {[CleanVS EXCEPT !["VSTESTCD"] = <<"X", "X">>, !["VSORRESU"] = <<"z">>],
                      [CleanVS EXCEPT !["VSTESTCD"] = Null, !["VSORRESU"] = <<"z">>]}
    [] OTHER -> {}

RuleRows(dom) ==
  {GateRows(dom, TRUE)[1], GateRows(dom, TRUE)[2]}
  \cup {[GateRows(dom, FALSE)[1] EXCEPT ![c[1]] = c[2]] : c \in RuleChanges(dom)}
  \cup RulePairs(dom)

RuleTable(dom, optional, rows) ==
  Table(IF optional THEN Columns(dom) ELSE Required(dom), rows)

InitRules ==
  /\ \E dom \in Range(DomainOrder), optional \in BOOLEAN, n \in 0..MaxRuleRows :
       \E rows \in [1..n -> RuleRows(dom)] :
         /\ dm = IF dom = "DM" THEN RuleTable(dom, optional, rows) ELSE CleanTable("DM")
         /\ vs = IF dom = "VS" THEN RuleTable(dom, optional, rows) ELSE CleanTable("VS")
         /\ ae = IF dom = "AE" THEN RuleTable(dom, optional, rows) ELSE CleanTable("AE")
         /\ cm = IF dom = "CM" THEN RuleTable(dom, optional, rows) ELSE CleanTable("CM")
  /\ CallIdle /\ RunIdle

NextRules ==
  \/ CallValidateDM
  \/ CallSdtmValidateDM
  \/ CallValidateVS
  \/ CallValidateAE
  \/ CallValidateCM

SpecRules == InitRules /\ [][NextRules]_vars

\* The table of the call and its rows, read by zero-based position.
Called == TableOf(op.dom)

Cell(i, c) == Called.rows[i + 1][c]

RowPositions == {i - 1 : i \in 1..Len(Called.rows)}

Has(c) == c \in Called.cols

\* A field is blank: null, or nothing but whitespace.
Blank(v) == IsNull(v) \/ \A k \in 1..Len(v) : IsSpace(v[k])

\* A present value that is no term of the allowed set.
NotATerm(v, allowed) == ~IsNull(v) /\ v \notin allowed

BadDate(v) == ~IsNull(v) /\ ~IsCalendarDate(v)

Reversed(a, b) == IsCalendarDate(a) /\ IsCalendarDate(b) /\ Later(a, b)

IsNumericAge(v) == \E p \in AgeTable : p[1] = v

AgeOutside(v) == \E p \in AgeTable : p[1] = v /\ (p[2] < 0 \/ p[2] > 1200)

SameIdElsewhere(i) == \E j \in RowPositions : j # i /\ Cell(j, "USUBJID") = Cell(i, "USUBJID")

\* The test code has a list of allowed units and the unit is present and
\* not in it.
WrongUnit(testcd, unit) ==
  /\ testcd \in VS_UNITS_KEYS
  /\ ~IsNull(unit)
  /\ unit \notin VS_UNITS_BY_TESTCD(testcd)

\* The rules of each validator in the order it evaluates them.
RuleOrder(fn) ==
  CASE fn = "validate_vs" -> <<"SDTM_VS_001", "SDTM_VS_002", "SDTM_VS_003", "SDTM_VS_004", "SDTM_VS_005">>
    [] fn = "validate_ae" -> <<"SDTM_AE_001", "SDTM_AE_002", "SDTM_AE_003", "SDTM_AE_004",
                               "SDTM_AE_005", "SDTM_AE_006">>
    [] fn = "validate_cm" -> <<"SDTM_CM_001", "SDTM_CM_002", "SDTM_CM_003", "SDTM_CM_004">>
    [] fn = "validate_dm" -> <<"SDTM_DM_001", "SDTM_DM_002", "SDTM_DM_003", "SDTM_DM_004",
                               "SDTM_DM_005", "SDTM_DM_006", "SDTM_DM_007", "SDTM_DM_008">>
    [] fn = "sdtm_rules.validate_dm" -> <<"SDTM_DM_001", "SDTM_DM_002", "SDTM_DM_003", "SDTM_DM_004",
                                          "SDTM_DM_005", "SDTM_DM_006">>

\* Row i of the table of the call violates the rule, by the rule's policy.
Violates(fn, rule, i) ==
  CASE fn = "validate_vs" ->
         (CASE rule = "SDTM_VS_001" -> Blank(Cell(i, "USUBJID"))
            [] rule = "SDTM_VS_002" -> NotATerm(Cell(i, "VSTESTCD"), VS_ALLOWED_TESTCD)
            [] rule = "SDTM_VS_003" -> BadDate(Cell(i, "VSDTC"))
            [] rule = "SDTM_VS_004" -> /\ Cell(i, "VSTESTCD") \in VS_ALLOWED_TESTCD
                                       /\ ~IsNull(Cell(i, "VSORRES"))
                                       /\ Cell(i, "VSORRES") \notin DecimalTexts
            [] rule = "SDTM_VS_005" -> Has("VSORRESU")
                                       /\ WrongUnit(Cell(i, "VSTESTCD"), Cell(i, "VSORRESU")))
    [] fn = "validate_ae" ->
         (CASE rule = "SDTM_AE_001" -> Blank(Cell(i, "AETERM"))
            [] rule = "SDTM_AE_002" -> BadDate(Cell(i, "AESTDTC"))
            [] rule = "SDTM_AE_003" -> Has("AEENDTC") /\ BadDate(Cell(i, "AEENDTC"))
            [] rule = "SDTM_AE_004" -> Has("AEENDTC") /\ Reversed(Cell(i, "AESTDTC"), Cell(i, "AEENDTC"))
            [] rule = "SDTM_AE_005" -> Has("AESER") /\ NotATerm(Cell(i, "AESER"), AE_ALLOWED_SER)
            [] rule = "SDTM_AE_006" -> Has("AESEV") /\ NotATerm(Cell(i, "AESEV"), AE_ALLOWED_SEV))
    [] fn = "validate_cm" ->
         (CASE rule = "SDTM_CM_001" -> Blank(Cell(i, "CMTRT"))
            [] rule = "SDTM_CM_002" -> BadDate(Cell(i, "CMSTDTC"))
            [] rule = "SDTM_CM_003" -> Has("CMENDTC") /\ BadDate(Cell(i, "CMENDTC"))
            [] rule = "SDTM_CM_004" -> Has("CMENDTC") /\ Reversed(Cell(i, "CMSTDTC"), Cell(i, "CMENDTC")))
    [] fn = "validate_dm" ->
         (CASE rule = "SDTM_DM_001" -> Blank(Cell(i, "USUBJID"))
            [] rule = "SDTM_DM_002" -> ~Blank(Cell(i, "USUBJID")) /\ SameIdElsewhere(i)
            [] rule = "SDTM_DM_003" -> Has("SEX") /\ NotATerm(Cell(i, "SEX"), DM_ALLOWED_SEX)
            [] rule = "SDTM_DM_004" -> Has("AGE") /\ AgeOutside(Cell(i, "AGE"))
            [] rule = "SDTM_DM_005" -> /\ Has("AGE") /\ Has("AGEU")
                                       /\ IsNumericAge(Cell(i, "AGE"))
                                       /\ (IsNull(Cell(i, "AGEU"))
                                           \/ NotATerm(Cell(i, "AGEU"), DM_ALLOWED_AGEU))
            [] rule = "SDTM_DM_006" -> Has("RFSTDTC") /\ BadDate(Cell(i, "RFSTDTC"))
            [] rule = "SDTM_DM_007" -> Has("RFENDTC") /\ BadDate(Cell(i, "RFENDTC"))
            [] rule = "SDTM_DM_008" -> /\ Has("RFSTDTC") /\ Has("RFENDTC")
                                       /\ Reversed(Cell(i, "RFSTDTC"), Cell(i, "RFENDTC")))
    [] fn = "sdtm_rules.validate_dm" ->
         (CASE rule = "SDTM_DM_001" -> Blank(Cell(i, "USUBJID"))
            [] rule = "SDTM_DM_002" -> ~IsNull(Cell(i, "USUBJID")) /\ SameIdElsewhere(i)
            [] rule = "SDTM_DM_003" -> Blank(Cell(i, "STUDYID"))
            [] rule = "SDTM_DM_004" -> Has("SEX") /\ NotATerm(Cell(i, "SEX"), DM_ALLOWED_SEX)
            [] rule = "SDTM_DM_005" -> Has("AGE") /\ AgeOutside(Cell(i, "AGE"))
            [] rule = "SDTM_DM_006" -> Has("RFSTDTC") /\ BadDate(Cell(i, "RFSTDTC")))

\* <<rule, position>> of the rows that violate a rule: rule by rule in the
\* validator's order, within a rule in row order.
RECURSIVE Marks(_, _, _)
Marks(fn, rules, n) ==
  IF Len(rules) = 0 THEN <<>>
  ELSE [k \in 1..Cardinality({i \in 0..(n - 1) : Violates(fn, rules[1], i)}) |->
          <<rules[1], CHOOSE i \in 0..(n - 1) :
                        /\ Violates(fn, rules[1], i)
                        /\ Cardinality({j \in 0..(i - 1) : Violates(fn, rules[1], j)}) = k - 1>>]
       \o Marks(fn, Tail(rules), n)

\* <<rule_id, row_index>> of the rows of a findings table, in order.
Reported(t) == [k \in 1..Len(t.rows) |-> <<t.rows[k].rule_id, t.rows[k].row_index>>]

PastGate == op.fn \in DomainValidators /\ ~LacksMandatory(op.dom)

(***************************************************************************)
(* Properties of the row-level rules                                       *)
(***************************************************************************)
\* The fields a validator holds to be non-empty: <<validator, field>>.
RequiredFields ==
  {<<"validate_vs", "USUBJID">>, <<"validate_dm", "USUBJID">>,
   <<"sdtm_rules.validate_dm", "USUBJID">>, <<"sdtm_rules.validate_dm", "STUDYID">>,
   <<"validate_ae", "AETERM">>, <<"validate_cm", "CMTRT">>}

\* Indexes of the findings on a field other than those of the uniqueness rule.
RequiredFindings(t, field) ==
  {k \in 1..Len(t.rows) : t.rows[k].field = <<field>> /\ t.rows[k].rule_id # "SDTM_DM_002"}

BlankRows(field) == {i \in RowPositions : Blank(Cell(i, field))}

\* C21: after a per-domain validator has run past the column gate, the
\* findings of its required-non-empty rule on a field (USUBJID in VS and DM,
\* STUDYID in DM, AETERM in AE, CMTRT in CM) are all HIGH and their row_index
\* are exactly the rows where the field is null or blank after trimming, each
\* once; a row with a non-blank value is never flagged.
C21_RequiredNonEmpty ==
  (PastGate /\ ~IsRaised(result)) =>
    \A field \in {p[2] : p \in {q \in RequiredFields : q[1] = op.fn}} :
      /\ {result.rows[k].row_index : k \in RequiredFindings(result, field)} = BlankRows(field)
      /\ Cardinality(RequiredFindings(result, field)) = Cardinality(BlankRows(field))
      /\ \A k \in RequiredFindings(result, field) : result.rows[k].severity = "HIGH"

\* The simple DM rules have run on a blank STUDYID and a clean row: the first
\* is flagged, the second is not.
C21_Witness ==
  /\ op.fn = "sdtm_rules.validate_dm"
  /\ Len(dm.rows) = 2
  /\ dm.rows[1]["STUDYID"] = TxtBlank /\ dm.rows[1]["USUBJID"] = TxtA
  /\ dm.rows[2]["STUDYID"] = TxtStudy /\ dm.rows[2]["USUBJID"] = TxtB
  /\ ~IsRaised(result)
  /\ Len(result.rows) = 1
  /\ result.rows[1].rule_id = "SDTM_DM_003"
  /\ result.rows[1].row_index = 0

\* The controlled-terminology rules: <<validator, rule, field>>.
TermRules ==
  {<<"validate_vs", "SDTM_VS_002", "VSTESTCD">>,
   <<"validate_ae", "SDTM_AE_005", "AESER">>,
   <<"validate_ae", "SDTM_AE_006", "AESEV">>,
   <<"validate_dm", "SDTM_DM_003", "SEX">>,
   <<"validate_dm", "SDTM_DM_005", "AGEU">>,
   <<"sdtm_rules.validate_dm", "SDTM_DM_004", "SEX">>}

AllowedTerms(field) ==
  CASE field = "VSTESTCD" -> VS_ALLOWED_TESTCD
    [] field = "AESER" -> AE_ALLOWED_SER
    [] field = "AESEV" -> AE_ALLOWED_SEV
    [] field = "SEX" -> DM_ALLOWED_SEX
    [] field = "AGEU" -> DM_ALLOWED_AGEU

\* The terminology rules of the validator called whose column is present.
TermRulesCalled == {r \in TermRules : r[1] = op.fn /\ Has(r[3])}

FieldFindings(t, field) == {k \in 1..Len(t.rows) : t.rows[k].field = <<field>>}

\* The findings on a field are those of one rule, one for each row of a set.
FlaggedExactly(t, rule, field, positions) ==
  /\ {t.rows[k].row_index : k \in FieldFindings(t, field)} = positions
  /\ Cardinality(FieldFindings(t, field)) = Cardinality(positions)
  /\ \A k \in FieldFindings(t, field) : t.rows[k].rule_id = rule

\* C22 as stated: every controlled-terminology rule (VSTESTCD, AESER, AESEV,
\* SEX, AGEU) flags exactly the rows whose value is non-null and not in the
\* allowed set; a null value and an allowed value are never flagged.
C22_TermsAsStated ==
  (PastGate /\ ~IsRaised(result)) =>
    \A r \in TermRulesCalled :
      FlaggedExactly(result, r[2], r[3],
                     {i \in RowPositions : NotATerm(Cell(i, r[3]), AllowedTerms(r[3]))})

\* C22: the rules on VSTESTCD, AESER, AESEV and SEX flag exactly the rows
\* whose value is non-null and not in the allowed set; the AGEU rule flags
\* exactly the rows whose AGE is a number and whose AGEU is null or not in
\* the allowed set.
C22_Terms ==
  (PastGate /\ ~IsRaised(result)) =>
    \A r \in TermRulesCalled :
      FlaggedExactly(result, r[2], r[3],
                     {i \in RowPositions :
                        IF r[3] = "AGEU"
                        THEN /\ Has("AGE") /\ IsNumericAge(Cell(i, "AGE"))
                             /\ (IsNull(Cell(i, "AGEU"))
                                 \/ NotATerm(Cell(i, "AGEU"), AllowedTerms("AGEU")))
                        ELSE NotATerm(Cell(i, r[3]), AllowedTerms(r[3]))})

\* The DM validator has run on a row with a null AGEU beside a numeric AGE
\* and on a row with an unknown AGEU beside an AGE that is no number: the
\* first is flagged, the second is not.
C22_Witness ==
  /\ op.fn = "validate_dm"
  /\ Len(dm.rows) = 2
  /\ dm.rows[1] = [CleanDM EXCEPT !["AGEU"] = Null]
  /\ dm.rows[2] = [CleanDM EXCEPT !["AGE"] = Null, !["AGEU"] = <<"X">>, !["USUBJID"] = TxtA]
  /\ \E k \in 1..Len(result.rows) :
       result.rows[k].rule_id = "SDTM_DM_005" /\ result.rows[k].row_index = 0
  /\ \A k \in 1..Len(result.rows) :
       result.rows[k].rule_id = "SDTM_DM_005" => result.rows[k].row_index # 1

\* The AGE bounds rules: <<validator, rule>>.
AgeRules == {<<"validate_dm", "SDTM_DM_004">>, <<"sdtm_rules.validate_dm", "SDTM_DM_005">>}

\* C23: a DM validator run on a table with an AGE column raises nothing and
\* flags, with severity MED, exactly the rows whose AGE is a number less than
\* 0 or greater than 120; 0, 120, a null AGE and an AGE that is no number
\* are not flagged.
C23_AgeBounds ==
  \A r \in AgeRules :
    (PastGate /\ op.fn = r[1] /\ Has("AGE")) =>
      /\ ~IsRaised(result)
      /\ FlaggedExactly(result, r[2], "AGE", {i \in RowPositions : AgeOutside(Cell(i, "AGE"))})
      /\ \A k \in FieldFindings(result, "AGE") : result.rows[k].severity = "MED"

\* The simple DM rules have run on AGE 120 and AGE 121: only the second row
\* is flagged.
C23_Witness ==
  /\ op.fn = "sdtm_rules.validate_dm"
  /\ Len(dm.rows) = 2
  /\ dm.rows[1] = [CleanDM EXCEPT !["AGE"] = <<"#", "1", "2", "0">>]
  /\ dm.rows[2] = [CleanDM EXCEPT !["AGE"] = <<"#", "1", "2", "1">>]
  /\ {result.rows[k].row_index : k \in FieldFindings(result, "AGE")} = {1}

UnitAdvisory ==
  IF op.fn = "validate_vs" /\ ~Has("VSORRESU") THEN << <<"SDTM_VS_005", -1>> >> ELSE <<>>

C25_UnitConsistency ==
  (PastGate /\ op.fn = "validate_vs" /\ ~IsRaised(result)) =>
    IF Has("VSORRESU")
    THEN /\ FlaggedExactly(result, "SDTM_VS_005", "VSORRESU",
                           {i \in RowPositions : WrongUnit(Cell(i, "VSTESTCD"), Cell(i, "VSORRESU"))})
         /\ \A k \in FieldFindings(result, "VSORRESU") : result.rows[k].severity = "MED"
    ELSE /\ FlaggedExactly(result, "SDTM_VS_005", "VSORRESU", {-1})
         /\ \A k \in FieldFindings(result, "VSORRESU") : result.rows[k].severity = "LOW"

\* validate_vs has run on a heart rate in kg and on a unit beside an unknown
\* test code: the first row has a unit finding, the second has none.
C25_Witness ==
  /\ op.fn = "validate_vs"
  /\ Len(vs.rows) = 2
  /\ vs.rows[1] = [CleanVS EXCEPT !["VSORRESU"] = <<"k", "g">>]
  /\ vs.rows[2] = [CleanVS EXCEPT !["VSTESTCD"] = <<"X", "X">>, !["VSORRESU"] = <<"z">>]
  /\ {result.rows[k].row_index : k \in FieldFindings(result, "VSORRESU")} = {0}

(***************************************************************************)
(* Pair specification: the two validate_dm_link are both called on the     *)
(* same tables, DM and the dependent tables with or without USUBJID        *)
(***************************************************************************)
MaxPairRows == 2

PairIds == {Null, TxtA, TxtD}

\* A table of the domain with the given identifiers, or without the column.
PairTable(dom, ids, keyed) ==
  LET t == IF dom = "DM" THEN DmOfIds(ids) ELSE WithIds(dom, ids)
  IN IF keyed THEN t ELSE Table(t.cols \ {"USUBJID"}, t.rows)

InitPair ==
  /\ \E n \in 0..MaxPairRows, keyed \in BOOLEAN :
       \E ids \in [1..n -> PairIds] :
         /\ keyed \/ ids \in [1..n -> {TxtA}]
         /\ dm = PairTable("DM", ids, keyed)
  /\ \E n \in 0..MaxPairRows, keyed \in BOOLEAN :
       \E ids \in [1..n -> PairIds] :
         /\ keyed \/ ids \in [1..n -> {TxtA}]
         /\ vs = PairTable("VS", ids, keyed)
         /\ ae = PairTable("AE", ids, keyed)
         /\ cm = PairTable("CM", ids, keyed)
  /\ CallIdle
  /\ doc = NoDoc /\ domains = <<>> /\ pc = AnyOrder /\ datasets = <<>>
  /\ findings_parts = <<>> /\ findings = NoResult

NextPair ==
  \/ CallValidateDMLink
  \/ CallRvValidateDMLink

SpecPair == InitPair /\ [][NextPair]_vars

BothLinksCalled(dom) ==
  {<<"validate_dm_link", dom>>, <<"run_validator.validate_dm_link", dom>>} \subseteq Calls

\* C29: called on the same tables, validate_dm_link of domain_validation and
\* validate_dm_link of run_validator return the same Findings table: the
\* same schema and the same rows with the same values in the same order.
C29_LinksEquivalent ==
  \A dom \in LinkDomains :
    BothLinksCalled(dom) =>
      returned[<<"validate_dm_link", dom>>][1] = returned[<<"run_validator.validate_dm_link", dom>>][1]

\* Both have been called on an AE table whose first subject is no subject
\* of DM: one orphan finding each.
C29_Witness ==
  /\ BothLinksCalled("AE")
  /\ dm = PairTable("DM", <<TxtA>>, TRUE)
  /\ ae = PairTable("AE", <<TxtD, TxtA>>, TRUE)
  /\ Len(returned[<<"run_validator.validate_dm_link", "AE">>][1].rows) = 1
  /\ returned[<<"run_validator.validate_dm_link", "AE">>][1].rows[1].row_index = 0

(***************************************************************************)
(* Repetition specification: one validator or check is called again on     *)
(* the same tables                                                         *)
(***************************************************************************)
\* <<subject, date>> rows of the table the ranges are taken from.
SharedAnchorRows == << <<TxtA, Date2>>, <<TxtB, Date2>>, <<Null, Date3>> >>

\* <<subject, date>> rows of the tables checked against it.
SharedDepRows == << <<TxtA, Date4>>, <<TxtB, Date4>>, <<TxtD, Date1>> >>

SharedTables ==
  \E xs \in Selections(SharedAnchorRows), ys \in Selections(SharedDepRows) :
    /\ dm = DmOfIds([i \in 1..Len(xs) |-> xs[i][1]])
    /\ vs = VsOf(xs)
    /\ ae = AeOf(ys)
    /\ cm = CmOf([i \in 1..Len(ys) |-> <<ys[i][1], ys[i][2], Date4>>], TRUE)

InitRepeat ==
  /\ SharedTables
  /\ CallIdle
  /\ doc = NoDoc /\ domains = <<>> /\ pc = Repeating /\ datasets = <<>>
  /\ findings_parts = <<>> /\ findings = NoResult

NextRepeat ==
  \/ CallValidateDM
  \/ CallSdtmValidateDM
  \/ CallValidateVS
  \/ CallValidateAE
  \/ CallValidateCM
  \/ CallValidateDMLink
  \/ CallRvValidateDMLink
  \/ CallValidateVSAE
  \/ CallValidateVSCM

SpecRepeat == InitRepeat /\ [][NextRepeat]_vars

\* C16: a validator or check called twice on the same tables returns the
\* same findings table both times, the same rows in the same order, also
\* where the findings come from unique, group_by and join results.
C16_Determinism ==
  \A c \in Calls : \A i, j \in 1..Len(returned[c]) : returned[c][i] = returned[c][j]

(***************************************************************************)
(* Reordering specification: the validators and checks of                  *)
(* domain_validation are called in any order, each once, on the same       *)
(* tables                                                                  *)
(***************************************************************************)
InitOrder ==
  /\ \E xs \in Selections(SharedAnchorRows), ys \in Selections(SubSeq(SharedDepRows, 1, 2)) :
       /\ dm = DmOfIds([i \in 1..Len(xs) |-> xs[i][1]])
       /\ vs = VsOf(xs)
       /\ ae = AeOf(ys)
       /\ cm = CmOf([i \in 1..Len(ys) |-> <<ys[i][1], ys[i][2], Date4>>], TRUE)
  /\ CallIdle
  /\ doc = NoDoc /\ domains = <<>> /\ pc = AnyOrder /\ datasets = <<>>
  /\ findings_parts = <<>> /\ findings = NoResult

NextOrder ==
  \/ CallValidateDM
  \/ CallValidateVS
  \/ CallValidateAE
  \/ CallValidateCM
  \/ CallValidateDMLink
  \/ CallValidateVSAE
  \/ CallValidateVSCM

SpecOrder == InitOrder /\ [][NextOrder]_vars

\* What call c returns when it is the only call made on the tables (for the
\* two temporal checks, one of the row orders it can return).
Alone(c) ==
  CASE c[1] = "validate_dm" -> validate_dm(dm)
    [] c[1] = "validate_vs" -> validate_vs(vs)
    [] c[1] = "validate_ae" -> validate_ae(ae)
    [] c[1] = "validate_cm" -> validate_cm(cm)
    [] c[1] = "validate_dm_link" -> validate_dm_link(dm, TableOf(c[2]), c[2])
    [] c[1] = "validate_vs_ae" -> CHOOSE v \in validate_vs_ae_results(vs, ae) : TRUE
    [] c[1] = "validate_vs_cm" -> CHOOSE v \in validate_vs_cm_results(vs, cm) : TRUE

Count(rows, x) == Cardinality({k \in 1..Len(rows) : rows[k] = x})

\* Two findings tables hold the same multiset of findings.
SameFindings(a, b) ==
  /\ ~IsRaised(a) /\ ~IsRaised(b)
  /\ a.schema = b.schema
  /\ Len(a.rows) = Len(b.rows)
  /\ \A k \in 1..Len(a.rows) : Count(a.rows, a.rows[k]) = Count(b.rows, a.rows[k])

At(run, step, k) == [run |-> run, step |-> step, k |-> k]

MainCalls == 9

\* The tables main has read so far; dm, vs, ae, cm are the CSV files.
Loaded(dom) == datasets[dom]

\* pl.read_csv of the four files, one after the other.
MainLoad ==
  /\ pc.run = "main" /\ pc.step = "load" /\ pc.k < Len(DomainOrder)
  /\ LET dom == DomainOrder[pc.k + 1] IN
     datasets' = [d \in DOMAIN datasets \cup {dom} |-> IF d = dom THEN TableOf(dom) ELSE datasets[d]]
  /\ pc' = IF pc.k + 1 < Len(DomainOrder) THEN At("main", "load", pc.k + 1) ELSE At("main", "call", 0)
  /\ UNCHANGED <<inputs, op, result, returned, findings_parts, findings>>

\* The values the k-th partial result of main can take, in the order main
\* computes them.
MainPart(k) ==
  CASE k = 1 -> {sdtm_validate_dm(Loaded("DM"))}
    [] k = 2 -> {validate_vs(Loaded("VS"))}
    [] k = 3 -> {validate_ae(Loaded("AE"))}
    [] k = 4 -> {validate_cm(Loaded("CM"))}
    [] k = 5 -> {rv_validate_dm_link(Loaded("DM"), Loaded("VS"), "VS")}
    [] k = 6 -> {rv_validate_dm_link(Loaded("DM"), Loaded("AE"), "AE")}
    [] k = 7 -> {rv_validate_dm_link(Loaded("DM"), Loaded("CM"), "CM")}
    [] k = 8 -> validate_vs_ae_results(Loaded("VS"), Loaded("AE"))
    [] k = 9 -> validate_vs_cm_results(Loaded("VS"), Loaded("CM"))

\* A step whose part is not waited for: the run moves on without it.
Yield_unawaited(f, next) ==
  /\ pc' = next
  /\ UNCHANGED <<findings_parts, findings>>

\* A step that yields part f: the run ends if f is a raised exception.
Yield(f, next) ==
  IF IsRaised(f)
  THEN /\ pc' = At(pc.run, "raised", pc.k)
       /\ findings' = f
       /\ UNCHANGED findings_parts
  ELSE /\ pc' = next
       /\ findings_parts' = Append(findings_parts, f)
       /\ UNCHANGED findings

MainCall ==
  /\ pc.run = "main" /\ pc.step = "call" /\ pc.k < MainCalls
  /\ \E f \in MainPart(pc.k + 1) : Yield(f, At("main", "call", pc.k + 1))
  /\ UNCHANGED <<inputs, op, result, returned, datasets>>

Finish(f) ==
  /\ findings' = f
  /\ pc' = At(pc.run, IF IsRaised(f) THEN "raised" ELSE "done", pc.k)

MainConcat ==
  /\ pc.run = "main" /\ pc.step = "call" /\ pc.k = MainCalls
  /\ Finish(pl_concat(findings_parts))
  /\ UNCHANGED <<inputs, op, result, returned, datasets, findings_parts>>

(***************************************************************************)
(* The run of DatasetJsonValidator.validate over a document                *)
(***************************************************************************)
ValidateTopLevel ==
  /\ pc.run = "validate" /\ pc.step = "top"
  /\ Yield(validate_top_level(doc), At("validate", "extract", 0))
  /\ UNCHANGED <<inputs, op, result, returned, datasets>>

ValidateExtract ==
  /\ pc.run = "validate" /\ pc.step = "extract" /\ pc.k < Len(domains)
  /\ LET domain == domains[pc.k + 1]
         got == domain_to_polars(doc, domain)
     IN /\ datasets' = [d \in DOMAIN datasets \cup {domain} |-> IF d = domain THEN got.df ELSE datasets[d]]
        /\ Yield(got.f, At("validate", "extract", pc.k + 1))
  /\ UNCHANGED <<inputs, op, result, returned>>

\* datasets.get(domain, pl.DataFrame())
Dataset(domain) == IF domain \in DOMAIN datasets THEN datasets[domain] ELSE EmptyFrame

DomainValidator(domain, df) ==
  CASE domain = "DM" -> sdtm_validate_dm(df)
    [] domain = "VS" -> validate_vs(df)
    [] domain = "AE" -> validate_ae(df)
    [] domain = "CM" -> validate_cm(df)

ValidateExtracted ==
  /\ pc.run = "validate" /\ pc.step = "extract" /\ pc.k = Len(domains)
  /\ pc' = At("validate", "validators", 0)
  /\ UNCHANGED <<inputs, op, result, returned, datasets, findings_parts, findings>>

ValidateDomain ==
  /\ pc.run = "validate" /\ pc.step = "validators" /\ pc.k < Len(DomainOrder)
  /\ LET domain == DomainOrder[pc.k + 1]
         next == IF pc.k + 1 < Len(DomainOrder) THEN At("validate", "validators", pc.k + 1)
                 ELSE At("validate", "links", 0)
     IN IF Height(Dataset(domain)) > 0
        THEN Yield(DomainValidator(domain, Dataset(domain)), next)
        ELSE pc' = next /\ UNCHANGED <<findings_parts, findings>>
  /\ UNCHANGED <<inputs, op, result, returned, datasets>>

LinkOrder == <<"VS", "AE", "CM">>

ValidateLink ==
  /\ pc.run = "validate" /\ pc.step = "links" /\ pc.k < Len(LinkOrder)
  /\ LET dom == LinkOrder[pc.k + 1]
         next == IF pc.k + 1 < Len(LinkOrder) THEN At("validate", "links", pc.k + 1)
                 ELSE At("validate", "merge", 0)
     IN IF Height(Dataset("DM")) > 0 /\ Height(Dataset(dom)) > 0
        THEN Yield(rv_validate_dm_link(Dataset("DM"), Dataset(dom), dom), next)
        ELSE pc' = next /\ UNCHANGED <<findings_parts, findings>>
  /\ UNCHANGED <<inputs, op, result, returned, datasets>>

\* The merge that closes validate.
MergeFindings(parts) ==
  IF Len(parts) > 0 THEN pl_concat(SelectSeq(parts, LAMBDA f : Width(f) > 0))
  ELSE [schema |-> <<>>, rows |-> <<>>]

ValidateMerge ==
  /\ pc.run = "validate" /\ pc.step = "merge"
  /\ Finish(MergeFindings(findings_parts))
  /\ UNCHANGED <<inputs, op, result, returned, datasets, findings_parts>>

(***************************************************************************)
(* Run specification: main over tables read from CSV, validate over a      *)
(* Dataset-JSON document                                                   *)
(***************************************************************************)
\* A table without rows, with clean rows, with clean and dirty rows, or with
\* clean rows and no USUBJID column.
RowKinds == {"none", "clean", "dirty", "gated"}

KindRows(dom, kind) ==
  CASE kind = "none" -> <<>> [] kind = "clean" -> GateRows(dom, FALSE) [] kind = "dirty" -> GateRows(dom, TRUE)
    [] kind = "gated" -> GateRows(dom, FALSE)

KindCols(dom, kind) == IF kind = "gated" THEN Columns(dom) \ {"USUBJID"} ELSE Columns(dom)

KindTable(dom, kind) == Table(KindCols(dom, kind), KindRows(dom, kind))

Items(dom) ==
  CASE dom = "DM" -> <<"USUBJID", "STUDYID", "SEX", "AGE", "AGEU", "RFSTDTC", "RFENDTC">>
    [] dom = "VS" -> <<"USUBJID", "VSTESTCD", "VSORRES", "VSDTC", "VSORRESU">>
    [] dom = "AE" -> <<"USUBJID", "AETERM", "AESTDTC", "AEENDTC", "AESER", "AESEV">>
    [] dom = "CM" -> <<"USUBJID", "CMTRT", "CMSTDTC", "CMENDTC">>

\* The dataset of a domain: its items and one array record per row.
DatasetOf(dom, kind) ==
  LET items == SelectSeq(Items(dom), LAMBDA c : c \in KindCols(dom, kind)) IN
  [items |-> items,
   itemDataIsList |-> TRUE,
   itemData |-> [i \in 1..Len(KindRows(dom, kind)) |->
                   [k \in 1..Len(items) |-> KindRows(dom, kind)[i][items[k]]]]]

TopAttrs == {"creationDateTime", "datasetJSONVersion"}

DocOf(attrs, present, kind) ==
  [attrs |-> attrs, clinicalData |-> "object", referenceData |-> "absent",
   itemGroupData |-> "object", ig |-> [d \in present |-> DatasetOf(d, kind)]]

Documents ==
  {DocOf(attrs, present, kind) :
     attrs \in {TopAttrs, {}}, present \in SUBSET {"DM", "VS", "AE", "CM"}, kind \in RowKinds}
  \cup {[NoDoc EXCEPT !.attrs = TopAttrs, !.clinicalData = c, !.itemGroupData = g] :
          c \in {"absent", "text", "object"}, g \in {"absent", "list"}}

NoTables == dm = EmptyFrame /\ vs = EmptyFrame /\ ae = EmptyFrame /\ cm = EmptyFrame

InitMain ==
  /\ \E kind \in [{"DM", "VS", "AE", "CM"} -> RowKinds] :
       /\ dm = KindTable("DM", kind["DM"]) /\ vs = KindTable("VS", kind["VS"])
       /\ ae = KindTable("AE", kind["AE"]) /\ cm = KindTable("CM", kind["CM"])
  /\ doc = NoDoc /\ domains = <<>>
  /\ pc = At("main", "load", 0)

InitValidate ==
  /\ NoTables
  /\ doc \in Documents /\ domains \in Selections(DomainOrder)
  /\ pc = At("validate", "top", 0)

InitRun ==
  /\ InitMain \/ InitValidate
  /\ CallIdle
  /\ datasets = <<>> /\ findings_parts = <<>> /\ findings = NoResult

NextRun ==
  \/ MainLoad
  \/ MainCall
  \/ MainConcat
  \/ ValidateTopLevel
  \/ ValidateExtract
  \/ ValidateExtracted
  \/ ValidateDomain
  \/ ValidateLink
  \/ ValidateMerge

SpecRun == InitRun /\ [][NextRun]_vars

Ended == pc.step \in {"done", "raised"}

\* C9: the result of a whole run, of main or of validate, is one Findings
\* table with exactly the 9 columns of the Finding schema, whatever partial
\* results are merged; the merge never fails over differing column sets.
C9_RunResult ==
  Ended => /\ pc.step = "done"
           /\ ~IsRaised(findings)
           /\ ColumnNames(findings.schema) = ColumnNames(FINDINGS_SCHEMA)

\* The domains a run is asked for: main reads all four files.
Requested == IF pc.run = "main" THEN Range(DomainOrder) ELSE Range(domains)

\* The next statement of the run calls a per-domain validator or a
\* cross-domain check.
AtValidators == pc.step \in {"call", "validators", "links"}

HasRows(dom) == dom \in DOMAIN datasets /\ Height(datasets[dom]) > 0

\* The number of partial results a run has collected once every validator
\* and check that runs on the extracted tables has returned.
PartsDue ==
  IF pc.run = "main" THEN 9
  ELSE 1 + Len(domains)
         + Cardinality({d \in Range(DomainOrder) : HasRows(d)})
         + (IF HasRows("DM") THEN Cardinality({d \in Range(LinkOrder) : HasRows(d)}) ELSE 0)

\* The step runs the DM link check of validate on domain LinkOrder[pc.k + 1].
LinkRuns == pc.run = "validate" /\ pc.step = "links" /\ findings_parts' # findings_parts

\* C14: every requested domain table is extracted or loaded before any
\* per-domain validator or cross-domain check starts, a cross-domain check
\* never runs on a table that was not extracted, and the aggregate is built
\* only after every validator and check that runs has returned.
C14_ExecutionOrder ==
  [][ /\ AtValidators => Requested \subseteq DOMAIN datasets
      /\ LinkRuns => ({"DM", LinkOrder[pc.k + 1]} \subseteq (DOMAIN datasets \cap Requested))
      /\ findings' # findings => (Len(findings_parts) = PartsDue /\ Requested \subseteq DOMAIN datasets)
    ]_vars

\* validate finished on a document with DM rows, asked for DM and VS: the
\* aggregate holds the structural part, two extraction parts and DM's part.
C14_Witness ==
  /\ pc.run = "validate" /\ pc.step = "done"
  /\ domains = <<"DM", "VS">>
  /\ HasRows("DM") /\ "VS" \in DOMAIN datasets
  /\ Len(findings_parts) = 4

(***************************************************************************)
(* Aggregation specification: a list of partial results and the two        *)
(* aggregating expressions                                                 *)
(***************************************************************************)
MaxParts == 3

PartPool ==
  { _empty_findings,
    validate_vs(GateTable("VS", {"VSDTC"}, TRUE, FALSE)),
    validate_ae(GateTable("AE", {}, TRUE, TRUE)),
    validate_top_level(NoDoc) }

InitConcat ==
  /\ \E n \in 0..MaxParts : findings_parts \in [1..n -> PartPool]
  /\ dm = CleanTable("DM") /\ OthersClean
  /\ CallIdle
  /\ doc = NoDoc /\ domains = <<>> /\ pc = Idle /\ datasets = <<>> /\ findings = NoResult

CallConcatFindings == Returns("concat_findings", "", concat_findings(findings_parts))

\* validate has appended the structural findings before it merges.
CallMergeFindings ==
  /\ Len(findings_parts) > 0
  /\ Returns("merge", "", MergeFindings(findings_parts))

NextConcat ==
  \/ CallConcatFindings
  \/ CallMergeFindings

SpecConcat == InitConcat /\ [][NextConcat]_vars

RECURSIVE RowsOf(_)
RowsOf(parts) == IF Len(parts) = 0 THEN <<>> ELSE parts[1].rows \o RowsOf(Tail(parts))

IsFindingsTable(t) == ~IsRaised(t) /\ ColumnNames(t.schema) = ColumnNames(FINDINGS_SCHEMA)

\* C8: concatenating k >= 0 Findings tables, zero-row ones included, gives a
\* table with the declared Findings schema, as many rows as the inputs have
\* together, in append order; the empty list gives an empty table of that
\* schema.
C8_Aggregation ==
  (op.fn \in {"concat_findings", "merge"} /\ \A i \in 1..Len(findings_parts) : IsFindingsTable(findings_parts[i]))
    => /\ IsFindingsTable(result)
       /\ result.schema = FINDINGS_SCHEMA
       /\ result.rows = RowsOf(findings_parts)

\* The findings of a validator or check that stopped at its column gate, and
\* of a requested domain that could not be extracted.
ScopeRules ==
  {"SDTM_DM_000", "SDTM_VS_000", "SDTM_AE_000", "SDTM_CM_000",
   "X_DMLINK_VS_000", "X_DMLINK_AE_000", "X_DMLINK_CM_000",
   "X_VSAE_000", "X_VSCM_000", "DJ_110"}

ShortCircuited(f) ==
  \E k \in 1..Len(f.rows) : f.rows[k].severity = "CRIT" /\ f.rows[k].rule_id \in ScopeRules

\* C15: when a validator or check short-circuits with a CRIT finding, or a
\* requested domain cannot be extracted (DJ_110), the run does not abort:
\* every other validator and check whose tables are available has run, and
\* the aggregate holds that finding and the findings of the siblings.
C15_SiblingIndependence ==
  (Ended /\ \E i \in 1..Len(findings_parts) : ShortCircuited(findings_parts[i]))
    => /\ pc.step = "done"
       /\ ~IsRaised(findings)
       /\ Len(findings_parts) = PartsDue
       /\ findings.rows = RowsOf(findings_parts)

\* C7: every Findings table a validator or check returns, a zero-row one
\* included, has exactly the 9 columns finding_type, rule_id, severity,
\* domain, field, message, row_index, usubjid, evidence with their types.
C7_NineColumns ==
  op.fn # "none" => (~IsRaised(result) /\ result.schema = FINDINGS_SCHEMA)

(***************************************************************************)
(* Top-level specification: validate_top_level on documents whose          *)
(* clinicalData and referenceData are absent, an empty list, a text, an    *)
(* empty object or an object                                               *)
(***************************************************************************)
RootValues == {"absent", "emptyList", "text", "emptyObject", "object"}

TopDocuments ==
  {[NoDoc EXCEPT !.attrs = a, !.clinicalData = c, !.referenceData = r, !.itemGroupData = g] :
     a \in SUBSET TopAttrs, c \in RootValues, r \in RootValues, g \in {"absent", "list", "object"}}

InitTopLevel ==
  /\ NoTables
  /\ doc \in TopDocuments /\ domains = <<>>
  /\ pc = At("validate", "top", 0)
  /\ CallIdle
  /\ datasets = <<>> /\ findings_parts = <<>> /\ findings = NoResult

NextTopLevel == ValidateTopLevel

SpecTopLevel == InitTopLevel /\ [][NextTopLevel]_vars

TopLevelDone == pc.run = "validate" /\ pc.step = "extract" /\ Len(findings_parts) = 1

HasRule(t, rule) == \E k \in 1..Len(t.rows) : t.rows[k].rule_id = rule

\* The values of the root keys the document has.
RootsPresent == {doc.clinicalData, doc.referenceData} \ {"absent"}

\* C26: validate_top_level emits DJ_002 when the document has a clinicalData
\* or referenceData key and no such key holds a JSON object, and never when
\* every such key holds a JSON object.
C26_RootObject ==
  TopLevelDone =>
    /\ (RootsPresent # {} /\ RootsPresent \cap {"object", "emptyObject"} = {})
         => HasRule(findings_parts[1], "DJ_002")
    /\ (RootsPresent # {} /\ RootsPresent \subseteq {"object", "emptyObject"})
         => ~HasRule(findings_parts[1], "DJ_002")

(***************************************************************************)
(* Caller-index specification: each table comes with or without a column   *)
(* named row_index of the caller's own                                     *)
(***************************************************************************)
\* The caller's row_index values, by row.
CallerIndex == <<7, 3, 5>>

IndexedRows(dom) ==
  CASE dom = "DM" -> <<CleanDM, DirtyDM>>
    [] dom = "VS" -> <<CleanVS, DirtyVS, [CleanVS EXCEPT !["VSDTC"] = Date4]>>
    [] dom = "AE" -> <<CleanAE, DirtyAE, [CleanAE EXCEPT !["AESTDTC"] = Date0]>>
    [] dom = "CM" -> <<CleanCM, DirtyCM>>

IndexedTable(dom, indexed) ==
  IF indexed
  THEN [cols |-> Columns(dom) \cup {"row_index"},
        rows |-> [i \in 1..Len(IndexedRows(dom)) |->
                    [row_index |-> CallerIndex[i]] @@ IndexedRows(dom)[i]]]
  ELSE Table(Columns(dom), IndexedRows(dom))

InitIndexed ==
  /\ \E indexed \in SUBSET Range(DomainOrder) :
       /\ dm = IndexedTable("DM", "DM" \in indexed)
       /\ vs = IndexedTable("VS", "VS" \in indexed)
       /\ ae = IndexedTable("AE", "AE" \in indexed)
       /\ cm = IndexedTable("CM", "CM" \in indexed)
  /\ CallIdle /\ RunIdle

NextIndexed ==
  \/ CallValidateDM
  \/ CallSdtmValidateDM
  \/ CallValidateVS
  \/ CallValidateAE
  \/ CallValidateCM
  \/ CallValidateDMLink
  \/ CallRvValidateDMLink
  \/ CallValidateVSAE
  \/ CallValidateVSCM

SpecIndexed == InitIndexed /\ [][NextIndexed]_vars

\* The table whose rows a finding of the call points to.
SourceTable(f) ==
  IF op.fn = "validate_vs_ae" THEN ae
  ELSE IF op.fn = "validate_vs_cm" THEN (IF f.rule_id = "X_VSCM_001" THEN cm ELSE vs)
  ELSE TableOf(op.dom)

\* C27: the row_index of every row-level finding of a validator or check is
\* a zero-based position of the source table as the caller passed it, and
\* the row at that position is the finding's: it has the finding's subject.
C27_RowIndexIsPosition ==
  (op.fn # "none" /\ ~IsRaised(result)) =>
    \A k \in 1..Len(result.rows) :
      LET f == result.rows[k] IN
      f.row_index >= 0 =>
        /\ f.row_index < Len(SourceTable(f).rows)
        /\ "usubjid" \in DOMAIN f =>
             f.usubjid = CastUtf8(SourceTable(f).rows[f.row_index + 1]["USUBJID"])
(***************************************************************************)
(* Tagging of findings                                                     *)
(***************************************************************************)

CrossChecks ==
  {"validate_dm_link", "run_validator.validate_dm_link", "validate_vs_ae", "validate_vs_cm"}

Tagged(t, finding_type, domain) ==
  \A k \in 1..Len(t.rows) :
    /\ t.rows[k].finding_type = finding_type
    /\ "domain" \in DOMAIN t.rows[k]
    /\ t.rows[k].domain = domain

\* C28: every finding a per-domain validator returns, the finding of the
\* column gate included, has finding_type SDTM_RULE and the validator's
\* domain; every finding a cross-domain check returns has finding_type
\* CROSS_DOMAIN and domain CROSS.
C28_Tagging ==
  /\ (op.fn \in DomainValidators /\ ~IsRaised(result)) => Tagged(result, "SDTM_RULE", op.dom)
  /\ (op.fn \in CrossChecks /\ ~IsRaised(result)) => Tagged(result, "CROSS_DOMAIN", "CROSS")
(***************************************************************************)
(* The medication window behind a VS/CM finding                            *)
(***************************************************************************)
\* The window of a subject has a least start and a greatest end, and the
\* start is not after the end.
WellFormedWindow(subj) ==
  \E lo \in CmStarts(subj), hi \in CmEnds(subj) :
    /\ \A a \in CmStarts(subj) : lo <= a
    /\ \A b \in CmEnds(subj) : b <= hi
    /\ lo <= hi

\* C30: whenever validate_vs_cm returns an X_VSCM_002 finding, the window of
\* the finding's subject is well-formed: its minimum is not after its maximum.
C30_WindowWellFormed ==
  (op.fn = "validate_vs_cm" /\ ~IsRaised(result)) =>
    \A k \in 1..Len(result.rows) :
      result.rows[k].rule_id = "X_VSCM_002" => WellFormedWindow(result.rows[k].usubjid)

====
